---- MODULE Spec2Model ----
(***************************************************************************)
(* Verification model of the Tibber Hourly Insights price engine:          *)
(*   price_adjustments.py  tariff adjuster (subsidy, then grid fee)        *)
(*   sensor.py             48h window statistics and weighted consensus    *)
(*   history.py            30-day same-hour baseline with remote fallback  *)
(*                                                                         *)
(* Arithmetic.  Python floats are modelled as exact numbers: money is an   *)
(* integer count of micro-NOK (1e-6 NOK), percentages and weights are      *)
(* integers or exact rationals [n, d].  Only round() looks at the binary   *)
(* value of a float, and it is modelled with the IEEE-754 double nearest   *)
(* to the exact quotient (see DoubleErrSign).                              *)
(***************************************************************************)
EXTENDS Integers, Sequences, FiniteSets, TLC

VARIABLES
    adj_call,       \* last call of calculate_adjusted_price: its arguments and its return value
    data,           \* coordinator.data, the last published refresh result
    cmp48,          \* state written by Tibber48HourComparisonSensor
    options,        \* entry.options, the configuration of the instance
    baseline_entity,\* hass.states entry of the 30-day baseline sensor
    consensus,      \* state written by TibberWeightedConsensusSensor
    baseline,       \* last call of get_same_hour_average: its arguments, locals and result
    category_call,  \* last call of _get_price_category: its argument and its return value
    batch_call,     \* last call of _apply_price_adjustments: its arguments and its outcome
    coordinator,    \* TibberDataUpdateCoordinator: snapshot, refresh state, request debouncer
    env,            \* the wall clock and what the Tibber API has published
    listener,       \* the closure of _handle_tibber_price_change
    tariff          \* entry.options, the tariff adjustment settings

\* the variables of the refresh cycle
refresh_vars == <<coordinator, env, listener, tariff>>

vars == <<adj_call, data, cmp48, options, baseline_entity, consensus, baseline,
          category_call, batch_call, refresh_vars>>

NoCall == [called |-> FALSE]

\* coordinator.data is None until the first refresh has published
NoData == [present |-> FALSE]

\* a sensor that has not written a state yet
NotWritten == [written |-> FALSE]

\* hass.states.get(entity_id) of an entity that does not exist
NoEntity == [exists |-> FALSE]

\* no coordinator has been set up
NoCoordinator == [exists |-> FALSE]

\* the refresh cycle is not part of the run
RefreshIdle ==
    /\ coordinator = NoCoordinator
    /\ env = [day |-> 0, hour |-> 0, tomorrow |-> FALSE]
    /\ listener = [last_return |-> "none", last_updated_hour |-> <<>>, requests |-> 0]
    /\ tariff = [enable_grid_fee |-> FALSE, enable_subsidy |-> FALSE]


\* Python's None and a present value
None == <<>>

Some(v) == <<v>>

Val(x) == x[1]

\* all lists of at most n elements of S
Lists(S, n) == UNION { [1 .. k -> S] : k \in 0 .. n }

RECURSIVE SumSeq(_)
SumSeq(q) == IF q = <<>> THEN 0 ELSE Head(q) + SumSeq(Tail(q))

\* max(q) and min(q) of a non-empty list
SeqMax(q) == CHOOSE x \in { q[i] : i \in 1 .. Len(q) } : \A i \in 1 .. Len(q) : q[i] <= x

SeqMin(q) == CHOOSE x \in { q[i] : i \in 1 .. Len(q) } : \A i \in 1 .. Len(q) : x <= q[i]

\* [x] * n
Repeat(x, n) == [ i \in 1 .. n |-> x ]

Min(a, b) == IF a <= b THEN a ELSE b

Max(a, b) == IF a >= b THEN a ELSE b

RECURSIVE GCD(_, _)
GCD(a, b) == IF b = 0 THEN (IF a < 0 THEN -a ELSE a) ELSE GCD(b, a % (IF b < 0 THEN -b ELSE b))

\* the exact rational n / d (d # 0), in lowest terms with a positive denominator
Rat(n, d) ==
    LET g == GCD(n, d)
        s == IF d < 0 THEN -1 ELSE 1
    IN  [d |-> (s * d) \div g, n |-> (s * n) \div g]

RatAdd(x, y) == Rat(x.n * y.d + y.n * x.d, x.d * y.d)

RatMul(x, y) == Rat(x.n * y.n, x.d * y.d)

\* the sum of f[k] over the keys in S
RECURSIVE RatSumOver(_, _)
RatSumOver(f, S) ==
    IF S = {} THEN Rat(0, 1)
    ELSE LET k == CHOOSE x \in S : TRUE
         IN  RatAdd(f[k], RatSumOver(f, S \ {k}))

RECURSIVE IntSumOver(_, _)
IntSumOver(f, S) ==
    IF S = {} THEN 0
    ELSE LET k == CHOOSE x \in S : TRUE
         IN  f[k] + IntSumOver(f, S \ {k})

(***************************************************************************)
(* Configuration: entry.options with the defaults of const.py.  Weights    *)
(* are counted in tenths.                                                  *)
(***************************************************************************)
DEFAULT_WEIGHT_TIBBER == 5
DEFAULT_WEIGHT_48H == 3
DEFAULT_WEIGHT_30D == 2
DEFAULT_VERY_CHEAP_PCT == -40
DEFAULT_CHEAP_PCT == -20
DEFAULT_NORMAL_PCT == 0
DEFAULT_EXPENSIVE_PCT == 20
DEFAULT_VERY_EXPENSIVE_PCT == 40

SignalNames == {"tibber", "48h", "30d"}

Weights(wt, w48, w30) == [ k \in SignalNames |->
                             IF k = "tibber" THEN wt ELSE IF k = "48h" THEN w48 ELSE w30 ]

Options(weights, enable_30d) == [enable_30d_baseline |-> enable_30d, weights |-> weights]

DefaultOptions ==
    Options(Weights(DEFAULT_WEIGHT_TIBBER, DEFAULT_WEIGHT_48H, DEFAULT_WEIGHT_30D), FALSE)

(***************************************************************************)
(* Python floats.  A float expression is modelled by its exact rational    *)
(* value.  round(x, ndigits) rounds the binary double, so where the exact  *)
(* value lies half-way between two decimals the outcome is decided by the  *)
(* double nearest to that value: above it, below it, or equal to it (and   *)
(* then round-half-even applies).                                          *)
(***************************************************************************)
RECURSIVE ScaleUp(_, _)
ScaleUp(a, b) == IF a < b THEN ScaleUp(2 * a, b) ELSE a

RECURSIVE ScaleDown(_, _)
ScaleDown(a, b) == IF a >= 2 * b THEN ScaleDown(a, 2 * b) ELSE b

\* long division of r / b for i more binary digits: <<remainder, last digit>>
RECURSIVE MantissaRem(_, _, _, _)
MantissaRem(r, b, i, bit) ==
    IF i = 0 THEN <<r, bit>>
    ELSE MantissaRem((2 * r) % b, b, i - 1, IF 2 * r >= b THEN 1 ELSE 0)

\* sign of (double nearest to n/d) - n/d, for d > 0: round-to-nearest, ties to even
DoubleErrSign(n, d) ==
    IF n = 0 THEN 0
    ELSE LET an  == IF n < 0 THEN -n ELSE n
             a   == ScaleUp(an, d)
             b   == ScaleDown(a, d)
             res == MantissaRem(a - b, b, 52, 1)   \* 52 digits after the leading 1
             r   == res[1]
             up  == IF 2 * r > b THEN 1
                    ELSE IF r = 0 THEN 0
                    ELSE IF 2 * r < b THEN -1
                    ELSE IF res[2] = 1 THEN 1 ELSE -1
         IN  IF n < 0 THEN -up ELSE up

RECURSIVE Pow10(_)
Pow10(k) == IF k = 0 THEN 1 ELSE 10 * Pow10(k - 1)

\* round(x, ndigits) for the rational x, as a count of 10^-ndigits
PyRound(x, ndigits) ==
    LET N   == x.n * Pow10(ndigits)
        f   == N \div x.d
        rem == N - f * x.d
        e   == DoubleErrSign(x.n, x.d)
    IN  IF 2 * rem < x.d THEN f
        ELSE IF 2 * rem > x.d THEN f + 1
        ELSE IF e > 0 THEN f + 1
        ELSE IF e < 0 THEN f
        ELSE IF f % 2 = 0 THEN f ELSE f + 1

(***************************************************************************)
(* Timestamps.  A timestamp is an instant: its hour of day in UTC and      *)
(* whether daylight saving time is in force in Oslo on its date.           *)
(***************************************************************************)
HoursPerDay == 24

Hours == 0 .. (HoursPerDay - 1)

Timestamp(h, dst) == [dst |-> dst, utc_hour |-> h]

\* pytz Europe/Oslo: UTC+1 (CET), UTC+2 (CEST)
OsloOffset(ts) == IF ts.dst THEN 2 ELSE 1

\* timestamp.astimezone(OSLO_TZ).hour
OsloHour(ts) == (ts.utc_hour + OsloOffset(ts)) % HoursPerDay

(***************************************************************************)
(* price_adjustments.calculate_adjusted_price                              *)
(***************************************************************************)
\* excess * (subsidy_percentage / 100.0)
SubsidyOf(excess, subsidy_percentage) == (excess * subsidy_percentage) \div 100

\* a day window that is closed at day_end_hour
grid_fee_closed_window(a) ==
    IF a.enable_grid_fee
    THEN IF a.day_start_hour <= OsloHour(a.timestamp) /\ OsloHour(a.timestamp) <= a.day_end_hour
         THEN a.grid_fee_day
         ELSE a.grid_fee_night
    ELSE 0

\* Step 2 (lines 83-93): time-of-day grid fee, in Oslo civil time
grid_fee_of(a) ==
    IF a.enable_grid_fee
    THEN IF a.day_start_hour <= OsloHour(a.timestamp) /\ OsloHour(a.timestamp) < a.day_end_hour
         THEN a.grid_fee_day
         ELSE a.grid_fee_night
    ELSE 0

\* a subsidy taken on the price with the grid fee already added
subsidy_amount_after_fee(a) ==
    IF a.enable_subsidy /\ a.spot_price + grid_fee_of(a) > a.subsidy_threshold
    THEN SubsidyOf(a.spot_price + grid_fee_of(a) - a.subsidy_threshold, a.subsidy_percentage)
    ELSE 0

\* Step 1 (lines 74-81): subsidy on the raw spot price
subsidy_amount_of(a) ==
    IF a.enable_subsidy /\ a.spot_price > a.subsidy_threshold
    THEN SubsidyOf(a.spot_price - a.subsidy_threshold, a.subsidy_percentage)
    ELSE 0

calculate_adjusted_price(a) ==
    LET subsidy_amount      == subsidy_amount_of(a)
        price_after_subsidy == a.spot_price - subsidy_amount
        grid_fee            == grid_fee_of(a)
        final_price         == price_after_subsidy + grid_fee
    IN  [adjusted_price |-> final_price,
         grid_fee       |-> grid_fee,
         oslo_hour      |-> OsloHour(a.timestamp),
         raw_spot_price |-> a.spot_price,
         subsidy_amount |-> subsidy_amount]

(***************************************************************************)
(* Inputs of the adjuster.  Money in micro-NOK; every amount is a multiple *)
(* of 100 micro-NOK, so that the division by 100 of an integer percentage  *)
(* is exact, as it is over the reals.                                      *)
(***************************************************************************)
DEFAULT_SUBSIDY_THRESHOLD == 937500
DEFAULT_SUBSIDY_PERCENTAGE == 90
DEFAULT_GRID_FEE_DAY == 444000
DEFAULT_GRID_FEE_NIGHT == 305000
DEFAULT_DAY_START_HOUR == 6
DEFAULT_DAY_END_HOUR == 22

SpotPrices == {-250000, 0, 937400, DEFAULT_SUBSIDY_THRESHOLD, 937600, 1500000, 2400000}
Thresholds == {0, DEFAULT_SUBSIDY_THRESHOLD}
Percentages == {0, 50, DEFAULT_SUBSIDY_PERCENTAGE, 100}

AdjustArgs(p, ts, es, thr, pct, eg, fd, fn, ds, de) ==
    [day_end_hour |-> de, day_start_hour |-> ds,
     enable_grid_fee |-> eg, enable_subsidy |-> es,
     grid_fee_day |-> fd, grid_fee_night |-> fn,
     spot_price |-> p, subsidy_percentage |-> pct, subsidy_threshold |-> thr,
     timestamp |-> ts]

InitAdjust ==
    /\ adj_call = NoCall
    /\ data = NoData
    /\ cmp48 = NotWritten
    /\ options = DefaultOptions
    /\ baseline_entity = NoEntity
    /\ consensus = NotWritten
    /\ baseline = NoCall
    /\ category_call = NoCall
    /\ batch_call = NoCall
    /\ RefreshIdle

CalculateAdjustedPrice(a) ==
    /\ UNCHANGED <<data, cmp48, options, baseline_entity, consensus, baseline, category_call, batch_call,
                   refresh_vars>>
    /\ adj_call' = [args |-> a, called |-> TRUE, ret |-> calculate_adjusted_price(a)]

\* every hour of the day against every day window, in winter and in summer time
FeeSweep ==
    /\ ~adj_call.called
    /\ \E p \in {DEFAULT_SUBSIDY_THRESHOLD, 1500000}, h \in Hours, dst \in BOOLEAN, es \in BOOLEAN,
       ds \in Hours, de \in Hours :
        CalculateAdjustedPrice(
            AdjustArgs(p, Timestamp(h, dst), es, DEFAULT_SUBSIDY_THRESHOLD,
                       DEFAULT_SUBSIDY_PERCENTAGE, TRUE, DEFAULT_GRID_FEE_DAY,
                       DEFAULT_GRID_FEE_NIGHT, ds, de))

\* every price against every threshold and percentage, around the default day window
SubsidySweep ==
    /\ ~adj_call.called
    /\ \E p \in SpotPrices, h \in {4, 5, 9, 20, 21}, es \in BOOLEAN, thr \in Thresholds,
       pct \in Percentages, eg \in BOOLEAN :
        CalculateAdjustedPrice(
            AdjustArgs(p, Timestamp(h, FALSE), es, thr, pct, eg, DEFAULT_GRID_FEE_DAY,
                       DEFAULT_GRID_FEE_NIGHT, DEFAULT_DAY_START_HOUR, DEFAULT_DAY_END_HOUR))

NextAdjust == FeeSweep \/ SubsidySweep

SpecAdjust == InitAdjust /\ [][NextAdjust]_vars

(***************************************************************************)
(* Claims about the tariff adjuster                                        *)
(***************************************************************************)
ScenarioAdjustArgs ==
    AdjustArgs(1500000, Timestamp(9, FALSE), TRUE, DEFAULT_SUBSIDY_THRESHOLD,
               DEFAULT_SUBSIDY_PERCENTAGE, TRUE, DEFAULT_GRID_FEE_DAY, DEFAULT_GRID_FEE_NIGHT,
               DEFAULT_DAY_START_HOUR, DEFAULT_DAY_END_HOUR)

\* C1: the subsidy is computed from the raw spot price alone, before any grid fee:
\* (raw - threshold) * percentage / 100 when the subsidy is enabled and raw > threshold,
\* 0 otherwise (raw = threshold included); adjusted = raw - subsidy + grid fee; and
\* raw 1.50 at local hour 10 gives subsidy 0.50625 and adjusted 1.43775.
C1_SubsidyOnRawPrice ==
    adj_call.called =>
        LET a == adj_call.args
            r == adj_call.ret
        IN  /\ r.raw_spot_price = a.spot_price
            /\ IF a.enable_subsidy /\ a.spot_price > a.subsidy_threshold
               THEN 100 * r.subsidy_amount
                        = (a.spot_price - a.subsidy_threshold) * a.subsidy_percentage
               ELSE r.subsidy_amount = 0
            /\ r.adjusted_price = a.spot_price - r.subsidy_amount + r.grid_fee
            /\ a = ScenarioAdjustArgs =>
                   /\ r.oslo_hour = 10
                   /\ r.subsidy_amount = 506250
                   /\ r.adjusted_price = 1437750

\* C1 witness: the scenario call, with subsidy and grid fee both applied
C1_Witness ==
    /\ adj_call.called
    /\ adj_call.args = ScenarioAdjustArgs
    /\ adj_call.ret.subsidy_amount = 506250
    /\ adj_call.ret.grid_fee = DEFAULT_GRID_FEE_DAY

\* C2: with the grid fee enabled the fee is the day rate exactly when
\* day_start_hour <= local hour < day_end_hour and the night rate otherwise; when
\* day_start_hour >= day_end_hour the day window is empty and the night rate always applies.
C2_HalfOpenDayWindow ==
    (adj_call.called /\ adj_call.args.enable_grid_fee) =>
        LET a == adj_call.args
            r == adj_call.ret
            h == (a.timestamp.utc_hour + (IF a.timestamp.dst THEN 2 ELSE 1)) % 24
        IN  /\ h \in 0 .. 23
            /\ r.grid_fee = IF a.day_start_hour <= h /\ h < a.day_end_hour
                            THEN a.grid_fee_day
                            ELSE a.grid_fee_night
            /\ a.day_start_hour >= a.day_end_hour => r.grid_fee = a.grid_fee_night

\* C2 witness: a call at the local hour where an empty day window starts and ends
C2_Witness ==
    /\ adj_call.called
    /\ adj_call.args.enable_grid_fee
    /\ adj_call.args.day_start_hour = adj_call.args.day_end_hour
    /\ adj_call.ret.oslo_hour = adj_call.args.day_end_hour
    /\ adj_call.ret.grid_fee = adj_call.args.grid_fee_night
    /\ adj_call.args.grid_fee_night # adj_call.args.grid_fee_day

(***************************************************************************)
(* sensor.py: Tibber48HourComparisonSensor, the 48-hour window statistics  *)
(***************************************************************************)
PRICE_CATEGORY_CHEAP_THRESHOLD == 33
PRICE_CATEGORY_EXPENSIVE_THRESHOLD == 66

\* a price record as the sensors read it: entry.get("total")
Entry(total) == [total |-> total]

\* a published refresh result
PriceData(current_total, level, today, tomorrow, yesterday) ==
    [current   |-> [level |-> level, total |-> current_total],
     present   |-> TRUE,
     today     |-> today,
     tomorrow  |-> tomorrow,
     yesterday |-> yesterday]

\* [entry["total"] for entry in entries if entry.get("total") is not None]
RECURSIVE TotalsOf(_)
TotalsOf(entries) ==
    IF entries = <<>> THEN <<>>
    ELSE IF Head(entries).total # None
         THEN <<Val(Head(entries).total)>> \o TotalsOf(Tail(entries))
         ELSE TotalsOf(Tail(entries))

\* a window made of every list that was published
union_of_all_days(d) == TotalsOf(d.yesterday \o d.today \o d.tomorrow)

\* Tibber48HourComparisonSensor._get_48h_prices
Comparison_get_48h_prices(d) ==
    IF d.tomorrow # <<>> THEN TotalsOf(d.today \o d.tomorrow)
    ELSE IF d.yesterday # <<>> THEN TotalsOf(d.yesterday \o d.today)
    ELSE TotalsOf(d.today)

\* a rank that counts the values equal to the reference as below it
percentile_counting_ties(current_price, prices) ==
    IF prices = <<>> THEN Rat(50, 1)
    ELSE Rat(Cardinality({ i \in 1 .. Len(prices) : prices[i] <= current_price }) * 100,
             Len(prices))

\* Tibber48HourComparisonSensor._calculate_percentile
calculate_percentile(current_price, prices) ==
    IF prices = <<>> THEN Rat(50, 1)
    ELSE LET count_below == Cardinality({ i \in 1 .. Len(prices) : prices[i] < current_price })
         IN  Rat(count_below * 100, Len(prices))

\* buckets whose upper ends are closed: a rank equal to a threshold stays in the lower one
price_category_closed_thresholds(percentile) ==
    IF percentile.n <= PRICE_CATEGORY_CHEAP_THRESHOLD * percentile.d THEN "cheap"
    ELSE IF percentile.n <= PRICE_CATEGORY_EXPENSIVE_THRESHOLD * percentile.d THEN "normal"
    ELSE "expensive"

\* buckets whose upper one starts at the rank 60
price_category_expensive_from_60(percentile) ==
    IF percentile.n < PRICE_CATEGORY_CHEAP_THRESHOLD * percentile.d THEN "cheap"
    ELSE IF percentile.n < 60 * percentile.d THEN "normal"
    ELSE "expensive"

\* Tibber48HourComparisonSensor._get_price_category
get_price_category(percentile) ==
    IF percentile.n < PRICE_CATEGORY_CHEAP_THRESHOLD * percentile.d THEN "cheap"
    ELSE IF percentile.n < PRICE_CATEGORY_EXPENSIVE_THRESHOLD * percentile.d THEN "normal"
    ELSE "expensive"

\* Tibber48HourComparisonSensor._calculate_pct_vs_average
Comparison_calculate_pct_vs_average(current_price, prices) ==
    IF prices = <<>> THEN Rat(0, 1)
    ELSE IF SumSeq(prices) = 0 THEN Rat(0, 1)
    ELSE Rat((current_price * Len(prices) - SumSeq(prices)) * 100, SumSeq(prices))

\* Tibber48HourComparisonSensor.native_value
Comparison_native_value(d) ==
    IF ~d.present THEN None
    ELSE IF d.current.total = None THEN None
    ELSE IF Comparison_get_48h_prices(d) = <<>> THEN None
    ELSE Some(PyRound(calculate_percentile(Val(d.current.total), Comparison_get_48h_prices(d)), 1))

\* Tibber48HourComparisonSensor.extra_state_attributes
Comparison_extra_state_attributes(d) ==
    IF ~d.present THEN None
    ELSE IF d.current.total = None THEN None
    ELSE IF Comparison_get_48h_prices(d) = <<>> THEN None
    ELSE LET current_price == Val(d.current.total)
             prices_48h    == Comparison_get_48h_prices(d)
             percentile    == calculate_percentile(current_price, prices_48h)
         IN  Some([current_price       |-> current_price,
                   data_source         |-> IF d.tomorrow # <<>> THEN "today+tomorrow"
                                           ELSE "yesterday+today",
                   pct_vs_average_48h  |-> PyRound(Comparison_calculate_pct_vs_average(
                                                       current_price, prices_48h), 2),
                   percentile          |-> PyRound(percentile, 1),
                   price_category      |-> get_price_category(percentile)])

\* Tibber48HourComparisonSensor.available (the last update succeeded)
Comparison_available(d) ==
    /\ d.present
    /\ d.current.total # None
    /\ Len(d.today) > 0

\* the state the sensor writes after a coordinator update, with the window and the
\* unrounded rank it was computed from
Comparison_state(d) ==
    [attributes   |-> Comparison_extra_state_attributes(d),
     available    |-> Comparison_available(d),
     native_value |-> Comparison_native_value(d),
     prices_48h   |-> IF d.present THEN Comparison_get_48h_prices(d) ELSE <<>>,
     rank         |-> IF d.present /\ d.current.total # None
                      THEN Some(calculate_percentile(Val(d.current.total),
                                                     Comparison_get_48h_prices(d)))
                      ELSE None,
     written      |-> TRUE]

(***************************************************************************)
(* sensor.py: TibberWeightedConsensusSensor, the window it builds          *)
(***************************************************************************)
\* TibberWeightedConsensusSensor._get_48h_prices
Consensus_get_48h_prices(d) ==
    IF d.tomorrow # <<>> THEN TotalsOf(d.today \o d.tomorrow)
    ELSE IF d.yesterday # <<>> THEN TotalsOf(d.yesterday \o d.today)
    ELSE TotalsOf(d.today)

\* TibberWeightedConsensusSensor._calculate_pct_vs_average
Consensus_calculate_pct_vs_average(current_price, prices) ==
    IF prices = <<>> THEN Rat(0, 1)
    ELSE IF SumSeq(prices) = 0 THEN Rat(0, 1)
    ELSE Rat((current_price * Len(prices) - SumSeq(prices)) * 100, SumSeq(prices))

\* the state of the 30-day baseline sensor in hass.states: its state string and its
\* difference_percent attribute (None, or a percentage counted in tenths)
BaselineEntity(state, difference_percent) ==
    [difference_percent |-> difference_percent, exists |-> TRUE, state |-> state]

\* TibberWeightedConsensusSensor._get_30d_percentage
get_30d_percentage(b) ==
    IF ~b.exists \/ b.state \in {"unavailable", "unknown"} THEN None
    ELSE IF b.difference_percent = None THEN None
    ELSE Some(Rat(Val(b.difference_percent), 10))

\* enum_map.get(tibber_level, 0.0) with the default mapping
enum_map(tibber_level) ==
    CASE tibber_level = "VERY_CHEAP"     -> DEFAULT_VERY_CHEAP_PCT
      [] tibber_level = "CHEAP"          -> DEFAULT_CHEAP_PCT
      [] tibber_level = "NORMAL"         -> DEFAULT_NORMAL_PCT
      [] tibber_level = "EXPENSIVE"      -> DEFAULT_EXPENSIVE_PCT
      [] tibber_level = "VERY_EXPENSIVE" -> DEFAULT_VERY_EXPENSIVE_PCT
      [] OTHER                           -> 0

\* 1. Collect available metrics as percentages: the keys of the metrics dict
metrics_keys(d, o, b) ==
    { k \in SignalNames :
        \/ k = "tibber" /\ d.current.level # None
        \/ /\ k = "48h"
           /\ d.current.total # None
           /\ Val(d.current.total) # 0
           /\ Consensus_get_48h_prices(d) # <<>>
        \/ k = "30d" /\ o.enable_30d_baseline /\ get_30d_percentage(b) # None }

\* the metrics dict
metrics_of(d, o, b) ==
    [ k \in metrics_keys(d, o, b) |->
        IF k = "tibber" THEN Rat(enum_map(Val(d.current.level)), 1)
        ELSE IF k = "48h"
             THEN Consensus_calculate_pct_vs_average(Val(d.current.total),
                                                     Consensus_get_48h_prices(d))
             ELSE Val(get_30d_percentage(b)) ]

\* weights renormalised over every configured signal, present or not
normalized_over_all_signals(metrics, weights) ==
    [ k \in DOMAIN metrics |-> Rat(weights[k], IntSumOver(weights, SignalNames)) ]

\* 2. Renormalize weights for available inputs (total_weight # 0)
normalized_weights_of(metrics, weights) ==
    LET total_weight == IntSumOver(weights, DOMAIN metrics)
    IN  [ k \in DOMAIN metrics |-> Rat(weights[k], total_weight) ]

\* a score that is cut to 3 decimals instead of rounded
score_truncated(metrics, weights) ==
    LET nw == normalized_weights_of(metrics, weights)
        wp == RatSumOver([ k \in DOMAIN metrics |-> RatMul(metrics[k], nw[k]) ], DOMAIN metrics)
    IN  (wp.n * 10) \div wp.d

\* a score that takes the configured weights as tenths, without renormalising them
score_with_configured_weights(metrics, weights) ==
    LET weighted_pct == RatSumOver([ k \in DOMAIN metrics |->
                                       RatMul(metrics[k], Rat(weights[k], 10)) ],
                                   DOMAIN metrics)
    IN  PyRound(Rat(weighted_pct.n, weighted_pct.d * 100), 3)

\* 3. and 4. weighted average percentage, as a decimal rounded to 3 places (in thousandths)
score_of(metrics, weights) ==
    LET nw           == normalized_weights_of(metrics, weights)
        weighted_pct == RatSumOver([ k \in DOMAIN metrics |-> RatMul(metrics[k], nw[k]) ],
                                   DOMAIN metrics)
        score        == Rat(weighted_pct.n, weighted_pct.d * 100)
    IN  PyRound(score, 3)

\* a native_value without the neutral fallback for a zero weight sum
native_value_none_on_zero_weight(d, o, b) ==
    IF ~d.present THEN None
    ELSE LET metrics == metrics_of(d, o, b)
         IN  IF DOMAIN metrics = {} \/ IntSumOver(o.weights, DOMAIN metrics) = 0 THEN None
             ELSE Some(score_of(metrics, o.weights))

\* TibberWeightedConsensusSensor.native_value
Consensus_native_value(d, o, b) ==
    IF ~d.present THEN None
    ELSE LET metrics == metrics_of(d, o, b)
         IN  IF DOMAIN metrics = {} THEN None
             ELSE IF IntSumOver(o.weights, DOMAIN metrics) = 0 THEN Some(0)
             ELSE Some(score_of(metrics, o.weights))

\* the normalized_weights local of native_value, where it is computed
Consensus_native_weights(d, o, b) ==
    IF ~d.present THEN <<>>
    ELSE LET metrics == metrics_of(d, o, b)
         IN  IF DOMAIN metrics = {} \/ IntSumOver(o.weights, DOMAIN metrics) = 0 THEN <<>>
             ELSE normalized_weights_of(metrics, o.weights)

\* the normalized_weights local of extra_state_attributes
Consensus_attribute_weights(d, o, b) ==
    LET metrics == metrics_of(d, o, b)
    IN  IF IntSumOver(o.weights, DOMAIN metrics) > 0
        THEN normalized_weights_of(metrics, o.weights)
        ELSE <<>>

\* TibberWeightedConsensusSensor.extra_state_attributes
Consensus_extra_state_attributes(d, o, b) ==
    IF ~d.present THEN None
    ELSE LET metrics == metrics_of(d, o, b)
             nw      == Consensus_attribute_weights(d, o, b)
         IN  Some([available_inputs |-> DOMAIN metrics,
                   contributions    |-> [ k \in DOMAIN metrics |-> PyRound(metrics[k], 2) ],
                   current_price    |-> d.current.total,
                   weights_used     |-> [ k \in DOMAIN nw |-> PyRound(nw[k], 3) ]])

\* the state the sensor writes after a coordinator update, with the metrics and the
\* unrounded normalized weights it was computed from
Consensus_state(d, o, b) ==
    [attribute_weights |-> IF d.present THEN Consensus_attribute_weights(d, o, b) ELSE <<>>,
     attributes        |-> Consensus_extra_state_attributes(d, o, b),
     metrics           |-> IF d.present THEN metrics_of(d, o, b) ELSE <<>>,
     native_value      |-> Consensus_native_value(d, o, b),
     native_weights    |-> Consensus_native_weights(d, o, b),
     written           |-> TRUE]

(***************************************************************************)
(* Published data for the window statistics.  Prices in micro-NOK.         *)
(***************************************************************************)
MaxDayLen == 2

WindowPrices == {800000, 1000000, 1200000}
WindowTotals == {None} \cup { Some(p) : p \in WindowPrices }
TomorrowTotals == {None, Some(1500000)}
YesterdayTotals == {None, Some(900000)}
CurrentTotals == {None, Some(0)} \cup { Some(p) : p \in WindowPrices \cup {1500000} }

EntriesOf(totals) == [ i \in DOMAIN totals |-> Entry(totals[i]) ]

InitWindow ==
    /\ adj_call = NoCall
    /\ data = NoData
    /\ cmp48 = NotWritten
    /\ options = DefaultOptions
    /\ baseline_entity = NoEntity
    /\ consensus = NotWritten
    /\ baseline = NoCall
    /\ category_call = NoCall
    /\ batch_call = NoCall
    /\ RefreshIdle

\* a refresh publishes d and the comparison sensor writes its state
PublishWindow(d) ==
    /\ data' = d
    /\ cmp48' = Comparison_state(d)
    /\ UNCHANGED <<adj_call, options, baseline_entity, consensus, baseline, category_call, batch_call,
                   refresh_vars>>

PublishAnyDays ==
    /\ ~data.present
    /\ \E cur \in CurrentTotals, today \in Lists(WindowTotals, MaxDayLen),
          tomorrow \in Lists(TomorrowTotals, MaxDayLen),
          yesterday \in Lists(YesterdayTotals, MaxDayLen) :
            PublishWindow(PriceData(cur, Some("NORMAL"), EntriesOf(today),
                                    EntriesOf(tomorrow), EntriesOf(yesterday)))

\* today 1.0, 1.2, 0.8 and tomorrow 1.5, 0.9 with the current price 1.2
PublishFiveDistinct ==
    /\ ~data.present
    /\ \E cur \in {Some(800000), Some(1200000), Some(1500000)},
          yesterday \in Lists(YesterdayTotals, MaxDayLen) :
            PublishWindow(PriceData(cur, Some("NORMAL"),
                                    EntriesOf(<<Some(1000000), Some(1200000), Some(800000)>>),
                                    EntriesOf(<<Some(1500000), Some(900000)>>),
                                    EntriesOf(yesterday)))

NextWindow == PublishAnyDays \/ PublishFiveDistinct

SpecWindow == InitWindow /\ [][NextWindow]_vars

(***************************************************************************)
(* Configurations and published data for the consensus scorer              *)
(***************************************************************************)
WeightChoices == {0, DEFAULT_WEIGHT_48H, DEFAULT_WEIGHT_TIBBER}
Weight30dChoices == {0, DEFAULT_WEIGHT_30D}
Levels == {None, Some("VERY_CHEAP"), Some("CHEAP"), Some("NORMAL"), Some("EXPENSIVE"),
           Some("VERY_EXPENSIVE")}
BaselineEntities ==
    {NoEntity, BaselineEntity("unavailable", None), BaselineEntity("-12.5%", None),
     BaselineEntity("-12.5%", Some(-125)), BaselineEntity("+30.0%", Some(300))}
ConsensusCurrentTotals == {None, Some(0), Some(-500000), Some(900000), Some(1100000)}
ConsensusTodayTotals ==
    {<<>>, <<None>>, <<Some(1000000)>>, <<Some(1000000), Some(-1000000)>>,
     <<Some(800000), Some(1000000)>>}
ConsensusTomorrowTotals == {<<>>, <<Some(1200000)>>}

InitConsensus ==
    /\ adj_call = NoCall
    /\ data = NoData
    /\ cmp48 = NotWritten
    /\ consensus = NotWritten
    /\ baseline = NoCall
    /\ category_call = NoCall
    /\ batch_call = NoCall
    /\ RefreshIdle
    /\ \E wt \in WeightChoices, w48 \in WeightChoices, w30 \in Weight30dChoices,
          e30 \in BOOLEAN :
            options = Options(Weights(wt, w48, w30), e30)
    /\ baseline_entity \in BaselineEntities

\* a refresh publishes d and the consensus sensor writes its state
PublishConsensus ==
    /\ ~data.present
    /\ \E cur \in ConsensusCurrentTotals, level \in Levels, today \in ConsensusTodayTotals,
          tomorrow \in ConsensusTomorrowTotals :
            LET d == PriceData(cur, level, EntriesOf(today), EntriesOf(tomorrow), <<>>)
            IN  /\ data' = d
                /\ consensus' = Consensus_state(d, options, baseline_entity)
    /\ UNCHANGED <<adj_call, cmp48, options, baseline_entity, baseline, category_call, batch_call,
                   refresh_vars>>

NextConsensus == PublishConsensus

SpecConsensus == InitConsensus /\ [][NextConsensus]_vars


(***************************************************************************)
(* Claims about the consensus scorer                                       *)
(***************************************************************************)
\* some signal is present and the configured weights of the present signals sum to > 0
PresentWeightsPositive ==
    /\ consensus.written
    /\ data.present
    /\ DOMAIN consensus.metrics # {}
    /\ IntSumOver(options.weights, DOMAIN consensus.metrics) > 0

\* nw holds exactly w_k / (sum of the present weights) for the present signals k
IsRenormalization(nw) ==
    LET present == DOMAIN consensus.metrics
        total   == IntSumOver(options.weights, present)
    IN  /\ DOMAIN nw = present
        /\ \A k \in present : nw[k].d > 0 /\ nw[k].n * total = options.weights[k] * nw[k].d
        /\ RatSumOver(nw, present) = [d |-> 1, n |-> 1]

\* C3: for every non-empty set of present signals whose configured weights sum to more
\* than 0, the normalized weights w_i / (sum of the present w_j), as computed for the score
\* and for the attributes, sum to 1, and absent signals have no normalized weight.
C3_NormalizedWeightsSumToOne ==
    PresentWeightsPositive =>
        /\ IsRenormalization(consensus.native_weights)
        /\ IsRenormalization(consensus.attribute_weights)
        /\ DOMAIN Val(consensus.attributes).weights_used = DOMAIN consensus.metrics

\* C3 witness: tibber and 48h are present with weights 0.5 and 0.3, 30d is absent although
\* its weight is 0.2, and the normalized weights are 5/8 and 3/8
C3_Witness ==
    /\ PresentWeightsPositive
    /\ DOMAIN consensus.metrics = {"tibber", "48h"}
    /\ options.weights["30d"] > 0
    /\ consensus.native_weights["tibber"] = [d |-> 8, n |-> 5]
    /\ consensus.native_weights["48h"] = [d |-> 8, n |-> 3]
    /\ consensus.attribute_weights = consensus.native_weights

\* tibber = +20 % (weight 0.5), 48h = +10 % (weight 0.3), 30d absent
ScenarioConsensus ==
    /\ PresentWeightsPositive
    /\ DOMAIN consensus.metrics = {"tibber", "48h"}
    /\ consensus.metrics["tibber"] = [d |-> 1, n |-> 20]
    /\ consensus.metrics["48h"] = [d |-> 1, n |-> 10]
    /\ options.weights["tibber"] = 5
    /\ options.weights["48h"] = 3

\* C4: when some signal is present and the present weights sum to more than 0, the score
\* is the sum over the present signals of deviation * normalized weight, divided by 100
\* and rounded to 3 decimals; tibber +20 (0.5) and 48h +10 (0.3) with 30d absent give the
\* weights 0.625 and 0.375 and the score 0.1625, which rounds to 0.163.
C4_ScoreIsRoundedWeightedMean ==
    PresentWeightsPositive =>
        LET present == DOMAIN consensus.metrics
            total   == IntSumOver(options.weights, present)
            exact   == RatSumOver([ k \in present |->
                                      RatMul(consensus.metrics[k],
                                             Rat(options.weights[k], total * 100)) ],
                                  present)
            diff    == 1000 * exact.n - Val(consensus.native_value) * exact.d
        IN  /\ consensus.native_value # None
            /\ 2 * diff <= exact.d /\ -2 * diff <= exact.d
            /\ ScenarioConsensus =>
                   /\ exact = [d |-> 80, n |-> 13]
                   /\ consensus.native_value = Some(163)

\* C4 witness: the scenario is published and the sensor writes 0.163
C4_Witness ==
    /\ ScenarioConsensus
    /\ consensus.native_weights["tibber"] = [d |-> 8, n |-> 5]
    /\ consensus.native_value = Some(163)


\* C14: when no signal is available in a cycle the scorer returns the score 0.0 with an
\* empty contribution set, not an absent score.
C14_NoSignalGivesZero ==
    (consensus.written /\ data.present /\ DOMAIN consensus.metrics = {})
    => /\ consensus.native_value = Some(0)
       /\ Val(consensus.attributes).available_inputs = {}

\* C15: when some signal is present and the configured weights of the present signals
\* sum to exactly 0, the score is 0.0 and the normalized-weight map is empty: nothing is
\* divided by the weight sum in native_value or in the attributes.
C15_ZeroWeightSumGivesZero ==
    (/\ consensus.written
     /\ data.present
     /\ DOMAIN consensus.metrics # {}
     /\ IntSumOver(options.weights, DOMAIN consensus.metrics) = 0)
    => /\ consensus.native_value = Some(0)
       /\ consensus.native_weights = <<>>
       /\ consensus.attribute_weights = <<>>
       /\ DOMAIN Val(consensus.attributes).weights_used = {}

\* C15 witness: tibber and 48h are present with weight 0 each, the 30d weight is 0.2 but
\* the 30d signal is absent; the score is 0.0
C15_Witness ==
    /\ consensus.written
    /\ data.present
    /\ DOMAIN consensus.metrics = {"tibber", "48h"}
    /\ consensus.metrics["tibber"] = [d |-> 1, n |-> 20]
    /\ options.weights["tibber"] = 0
    /\ options.weights["48h"] = 0
    /\ options.weights["30d"] > 0
    /\ consensus.native_value = Some(0)
    /\ consensus.attribute_weights = <<>>

\* the signals that are computable from the published data, the configuration and the
\* baseline sensor
ComputableSignals ==
    { k \in SignalNames :
        \/ k = "tibber" /\ data.current.level # None
        \/ k = "48h" /\ data.current.total # None /\ Consensus_get_48h_prices(data) # <<>>
        \/ /\ k = "30d"
           /\ options.enable_30d_baseline
           /\ baseline_entity.exists
           /\ baseline_entity.state \notin {"unavailable", "unknown"}
           /\ baseline_entity.difference_percent # None }

\* C16: the inputs of a cycle are exactly the computable signals: tibber iff the level is
\* present, 48h iff the current price is present (0 and negative prices included) and the
\* window has a sample, 30d iff enabled and the baseline average is present.
C16_InputsAreComputableSignals ==
    (consensus.written /\ data.present)
    => /\ DOMAIN consensus.metrics = ComputableSignals
       /\ Val(consensus.attributes).available_inputs = ComputableSignals

\* C19: the deviation of the current price from the window average is
\* 100 * (price - average) / average, and when the average is exactly 0 the deviation is
\* absent: it is not reported as a number and it contributes no input to the consensus.
C19_ZeroAverageGivesNoDeviation ==
    (/\ consensus.written
     /\ data.present
     /\ data.current.total # None
     /\ Consensus_get_48h_prices(data) # <<>>)
    => LET prices == Consensus_get_48h_prices(data)
           price  == Val(data.current.total)
       IN  /\ (SumSeq(prices) # 0 /\ "48h" \in DOMAIN consensus.metrics)
              => consensus.metrics["48h"]
                 = Rat(100 * (price * Len(prices) - SumSeq(prices)), SumSeq(prices))
           /\ SumSeq(prices) = 0
              => /\ "48h" \notin DOMAIN consensus.metrics
                 /\ "48h" \notin Val(consensus.attributes).available_inputs

\* C30: with non-negative configured weights whose sum over the present signals is
\* greater than 0, the score times 100 lies between the smallest and the largest present
\* deviation, up to the rounding to 3 decimals (0.05 percentage points); when exactly
\* one signal is present the score is that signal's deviation / 100 rounded to 3
\* decimals, whatever its configured weight.
C30_ScoreBetweenDeviations ==
    (PresentWeightsPositive /\ \A k \in SignalNames : options.weights[k] >= 0) =>
        LET present == DOMAIN consensus.metrics
            v       == Val(consensus.native_value)
            dev(k)  == consensus.metrics[k]
        IN  /\ consensus.native_value # None
            /\ \A k \in present : dev(k).d > 0
            /\ \E k \in present : 20 * dev(k).n <= (2 * v + 1) * dev(k).d
            /\ \E k \in present : 20 * dev(k).n >= (2 * v - 1) * dev(k).d
            /\ Cardinality(present) = 1 =>
                 \A k \in present :
                    /\ 2 * (10 * dev(k).n - v * dev(k).d) <= dev(k).d
                    /\ 2 * (v * dev(k).d - 10 * dev(k).n) <= dev(k).d

\* C30 witness: only the 48h signal is present, with the weight 3 of 10 and a deviation
\* of -10 percent, and the score is -0.1
C30_Witness ==
    /\ PresentWeightsPositive
    /\ DOMAIN consensus.metrics = {"48h"}
    /\ options.weights["48h"] = 3
    /\ options.weights["tibber"] = 5
    /\ consensus.metrics["48h"] = [d |-> 1, n |-> -10]
    /\ consensus.native_value = Some(-100)

(***************************************************************************)
(* Claims about the window statistics                                      *)
(***************************************************************************)
Distinct(q) == \A i, j \in 1 .. Len(q) : i # j => q[i] # q[j]

\* C9: for every non-empty window and reference value the percentile rank is
\* 100 * (number of values strictly below the reference) / (number of values): values
\* equal to the reference are not counted, the rank lies in [0, 100], and among N
\* distinct values the minimum has rank 0 and the maximum has rank 100 * (N - 1) / N.
C9_RankCountsStrictlyBelow ==
    (cmp48.written /\ cmp48.rank # None /\ cmp48.prices_48h # <<>>) =>
        LET prices == cmp48.prices_48h
            ref    == Val(data.current.total)
            N      == Len(prices)
            rank   == Val(cmp48.rank)
            below  == Cardinality({ i \in 1 .. N : prices[i] < ref })
        IN  /\ rank.d > 0
            /\ rank.n * N = 100 * below * rank.d
            /\ 0 <= rank.n /\ rank.n <= 100 * rank.d
            /\ (Distinct(prices) /\ ref = SeqMin(prices)) => rank.n = 0
            /\ (Distinct(prices) /\ ref = SeqMax(prices)) => rank.n * N = 100 * (N - 1) * rank.d

\* C9 witness: the reference is the largest of five distinct window prices, rank 80
C9_Witness ==
    /\ cmp48.written
    /\ Len(cmp48.prices_48h) = 5
    /\ Distinct(cmp48.prices_48h)
    /\ data.current.total = Some(SeqMax(cmp48.prices_48h))
    /\ cmp48.rank = Some(Rat(80, 1))
    /\ cmp48.native_value = Some(800)

\* C10: the 48-hour window is exactly one pairing chosen by priority: today + tomorrow
\* when tomorrow is non-empty, else yesterday + today when yesterday is non-empty, else
\* today alone; never all three; the comparison sensor and the consensus scorer build
\* the same window from the same published data.
C10_WindowPriorityChain ==
    (data.present /\ cmp48.written) =>
        LET w  == cmp48.prices_48h
            td == TotalsOf(data.today)
            tm == TotalsOf(data.tomorrow)
            yd == TotalsOf(data.yesterday)
        IN  /\ data.tomorrow # <<>> => w = td \o tm
            /\ (data.tomorrow = <<>> /\ data.yesterday # <<>>) => w = yd \o td
            /\ (data.tomorrow = <<>> /\ data.yesterday = <<>>) => w = td
            /\ Consensus_get_48h_prices(data) = w

\* C10 witness: all three days are published with usable prices and the window is
\* today + tomorrow only
C10_Witness ==
    /\ data.present
    /\ cmp48.written
    /\ TotalsOf(data.today) # <<>>
    /\ TotalsOf(data.tomorrow) # <<>>
    /\ TotalsOf(data.yesterday) # <<>>
    /\ cmp48.prices_48h = TotalsOf(data.today) \o TotalsOf(data.tomorrow)
    /\ Len(cmp48.prices_48h) < Len(union_of_all_days(data))

\* the window 1.0, 1.2, 0.8, 1.5, 0.9 is published with the reference price 1.2
ScenarioWindow ==
    /\ cmp48.written
    /\ data.present
    /\ cmp48.prices_48h = <<1000000, 1200000, 800000, 1500000, 900000>>
    /\ data.current.total = Some(1200000)

\* the count and the rank of the scenario: three values (1.0, 0.8, 0.9) are strictly
\* below the reference and the rank is 60.0
ScenarioRankIs60 ==
    /\ Cardinality({ i \in DOMAIN cmp48.prices_48h :
                       cmp48.prices_48h[i] < Val(data.current.total) }) = 3
    /\ cmp48.rank = Some(Rat(60, 1))
    /\ cmp48.native_value = Some(600)
    /\ Val(cmp48.attributes).percentile = 600

\* C21 as stated: for the window prices [1.0, 1.2, 0.8, 1.5, 0.9] and the reference
\* price 1.2 three values are strictly below the reference, the percentile rank is 60.0
\* and the reported price category is "expensive".
C21_ScenarioCategoryExpensive ==
    ScenarioWindow => /\ ScenarioRankIs60
                      /\ Val(cmp48.attributes).price_category = "expensive"

\* C21, amended: for the window prices [1.0, 1.2, 0.8, 1.5, 0.9] and the reference
\* price 1.2 three values are strictly below the reference, the percentile rank is 60.0
\* and the reported price category is "normal", since 33 <= 60 < 66.
C21_ScenarioCategoryNormal ==
    ScenarioWindow => /\ ScenarioRankIs60
                      /\ Val(cmp48.attributes).price_category = "normal"

\* C21 witness: the scenario is published and the sensor reports rank 60.0, "normal"
C21_Witness ==
    /\ ScenarioWindow
    /\ data.tomorrow # <<>>
    /\ cmp48.native_value = Some(600)
    /\ Val(cmp48.attributes).price_category = "normal"

\* C22: the provenance tag published with the 48h statistics names the pairing the
\* window was built from: "today+tomorrow" when tomorrow was used, "yesterday+today"
\* when the yesterday snapshot was used, "today-only" when only today was used.
C22_ProvenanceTagNamesPairing ==
    (data.present /\ cmp48.written /\ cmp48.attributes # None) =>
        Val(cmp48.attributes).data_source
        = IF data.tomorrow # <<>> THEN "today+tomorrow"
          ELSE IF data.yesterday # <<>> THEN "yesterday+today"
          ELSE "today-only"

(***************************************************************************)
(* history.py: TibberHistoryHelper, the 30-day same-hour baseline          *)
(***************************************************************************)
\* a recorder State: its state string (or None) and its last_updated datetime
RecorderState(state, last_updated) == [last_updated |-> last_updated, state |-> state]

\* float(state.state): None stands for ValueError
PyFloat(s) ==
    CASE s = "0.8" -> Some(800000)
      [] s = "1.0" -> Some(1000000)
      [] s = "1.2" -> Some(1200000)
      [] OTHER     -> None

\* the "from" string of a consumption node; datetime.fromisoformat raises ValueError
\* on a string that does not parse
IsoString(ts) == [parses |-> TRUE, time |-> ts]
BadIsoString == [parses |-> FALSE, time |-> Timestamp(0, FALSE)]

\* a consumption node of the Tibber API.  from: None when the key is missing.
\* unitPriceVAT: None when the key is missing, Some(None) when it is null.
Node(from, unitPrice, unitPriceVAT) ==
    [from |-> from, unitPrice |-> unitPrice, unitPriceVAT |-> unitPriceVAT]

\* what the recorder query and the API client do when they are called
Raises == [raises |-> TRUE, returns |-> <<>>]
Returns(list) == [raises |-> FALSE, returns |-> list]
NoClient == [present |-> FALSE]
Client(outcome) == [outcome |-> outcome, present |-> TRUE]

\* Filter states for the same hour and collect prices
recorder_prices_of(states, current_hour) ==
    LET counted(st) ==
            /\ st.state # None
            /\ Val(st.state) \notin {"unavailable", "unknown"}
            /\ st.last_updated.utc_hour = current_hour
            /\ PyFloat(Val(st.state)) # None
        kept == SelectSeq(states, counted)
    IN  [ i \in DOMAIN kept |-> Val(PyFloat(Val(kept[i].state))) ]

\* Filter nodes to target hour and extract prices
fallback_prices_of(nodes, target_hour) ==
    LET counted(nd) ==
            /\ nd.from # None
            /\ Val(nd.from).parses
            /\ OsloHour(Val(nd.from).time) = target_hour
            /\ nd.unitPrice # None
            /\ (nd.unitPriceVAT = None \/ Val(nd.unitPriceVAT) # None)
        kept == SelectSeq(nodes, counted)
    IN  [ i \in DOMAIN kept |->
            Val(kept[i].unitPrice)
            + (IF kept[i].unitPriceVAT = None THEN 0 ELSE Val(Val(kept[i].unitPriceVAT))) ]

\* `last = min(last, 1000)  # Tibber API limit` in get_historical_consumption
TIBBER_API_LIMIT == 1000

\* the call of get_historical_consumption: the argument last and the number of records
\* the GraphQL query asks the remote API for
ConsumptionRequest(last) ==
    [last |-> last, query_last |-> Min(last, TIBBER_API_LIMIT), resolution |-> "HOURLY"]

\* a fetch that asks for all the missing days, whatever max_hours is
fetch_tibber_fallback_uncapped(tibber_client, target_hour, missing_days, max_hours) ==
    LET hours_to_fetch == missing_days * HoursPerDay
    IN  [prices  |-> IF tibber_client.outcome.raises THEN <<>>
                     ELSE fallback_prices_of(tibber_client.outcome.returns, target_hour),
         request |-> ConsumptionRequest(hours_to_fetch)]

\* TibberHistoryHelper.fetch_tibber_fallback: the request it sends and the list it returns
fetch_tibber_fallback(tibber_client, target_hour, missing_days, max_hours) ==
    LET hours_to_fetch == Min(missing_days * HoursPerDay, max_hours)
    IN  [prices  |-> IF tibber_client.outcome.raises THEN <<>>
                     ELSE fallback_prices_of(tibber_client.outcome.returns, target_hour),
         request |-> ConsumptionRequest(hours_to_fetch)]

\* a result dict with statistics; recorder_count and tibber_count are None when the
\* keys are missing
StatsResult(prices, source, recorder_count, tibber_count) ==
    [average        |-> Some(Rat(SumSeq(prices), Len(prices))),
     max            |-> Some(SeqMax(prices)),
     min            |-> Some(SeqMin(prices)),
     recorder_count |-> recorder_count,
     sample_count   |-> Len(prices),
     source         |-> source,
     tibber_count   |-> tibber_count]

\* a result dict that reports the average 0.0 when there is no sample
empty_result_zero_average(source) ==
    [average        |-> Some(Rat(0, 1)),
     max            |-> None,
     min            |-> None,
     recorder_count |-> None,
     sample_count   |-> 0,
     source         |-> source,
     tibber_count   |-> None]

\* a result dict without statistics
EmptyResult(source) ==
    [average        |-> None,
     max            |-> None,
     min            |-> None,
     recorder_count |-> None,
     sample_count   |-> 0,
     source         |-> source,
     tibber_count   |-> None]

\* a check that wants more than min_samples recorder samples
fallback_not_needed_strict(recorder_prices, min_samples, enable_fallback) ==
    Len(recorder_prices) > min_samples \/ ~enable_fallback

\* Step 2: Check if fallback is needed
fallback_not_needed(recorder_prices, min_samples, enable_fallback) ==
    Len(recorder_prices) >= min_samples \/ ~enable_fallback

\* a source that is "mixed" as soon as the fallback has samples
source_mixed_when_fallback(recorder_prices, tibber_prices) ==
    IF tibber_prices # <<>> THEN "mixed" ELSE "recorder"

\* Determine source
source_of(recorder_prices, tibber_prices) ==
    IF recorder_prices # <<>> /\ tibber_prices # <<>> THEN "mixed"
    ELSE IF tibber_prices # <<>> THEN "tibber"
    ELSE "recorder"

\* a merged result whose sample_count is the number of recorder samples
merged_result_counting_recorder(recorder_prices, tibber_prices) ==
    LET all_prices == recorder_prices \o tibber_prices
        source     == source_of(recorder_prices, tibber_prices)
    IN  IF all_prices = <<>> THEN EmptyResult("none")
        ELSE IF source = "mixed"
             THEN [ StatsResult(all_prices, source, Some(Len(recorder_prices)),
                                Some(Len(tibber_prices)))
                      EXCEPT !.sample_count = Len(recorder_prices) ]
             ELSE StatsResult(all_prices, source, None, None)

\* Step 4: Merge and calculate statistics
merged_result(recorder_prices, tibber_prices) ==
    LET all_prices == recorder_prices \o tibber_prices
        source     == source_of(recorder_prices, tibber_prices)
    IN  IF all_prices = <<>> THEN EmptyResult("none")
        ELSE IF source = "mixed"
             THEN StatsResult(all_prices, source, Some(Len(recorder_prices)),
                              Some(Len(tibber_prices)))
             ELSE StatsResult(all_prices, source, None, None)

\* TibberHistoryHelper.get_same_hour_average.  now and history are what dt_util.now()
\* and the recorder query give during the call.  The value holds the returned dict
\* (result), the requests sent to the API client (api_calls), the two sample lists, and
\* raised: the whole body runs under "except Exception", so no path raises.
get_same_hour_average(days, tibber_client, enable_fallback, min_samples, max_fetch_hours, now, history) ==
    LET current_hour    == OsloHour(now)
        recorder_prices == recorder_prices_of(history.returns, current_hour)
        recorder_only   == fallback_not_needed(recorder_prices, min_samples, enable_fallback)
        missing_days    == Max(1, days - Len(recorder_prices))
        fetched         == fetch_tibber_fallback(tibber_client, current_hour, missing_days,
                                                 max_fetch_hours)
        tibber_prices   == IF tibber_client.present THEN fetched.prices ELSE <<>>
    IN  IF history.raises
        THEN [api_calls |-> <<>>, raised |-> FALSE, recorder_prices |-> <<>>,
              result |-> EmptyResult("error"), tibber_prices |-> <<>>]
        ELSE IF recorder_only
        THEN [api_calls |-> <<>>, raised |-> FALSE, recorder_prices |-> recorder_prices,
              result |-> IF recorder_prices = <<>> THEN EmptyResult("recorder")
                         ELSE StatsResult(recorder_prices, "recorder", None, None),
              tibber_prices |-> <<>>]
        ELSE [api_calls |-> IF tibber_client.present THEN <<fetched.request>> ELSE <<>>,
              raised |-> FALSE, recorder_prices |-> recorder_prices,
              result |-> merged_result(recorder_prices, tibber_prices),
              tibber_prices |-> tibber_prices]

(***************************************************************************)
(* Calls of get_same_hour_average                                          *)
(***************************************************************************)
\* days=30, the lookback of the 30-day baseline sensor
BASELINE_DAYS == 30

\* 13:00 local time in winter, 14:00 local time in summer
Nows == {Timestamp(12, FALSE), Timestamp(12, TRUE)}

\* a state the recorder filter counts: the UTC hour of last_updated is the hour of now
CountedState(now, text) == RecorderState(Some(text), Timestamp(OsloHour(now), now.dst))

\* states the recorder filter may drop: sentinels, no state, text, another hour
OtherStates(now) ==
    {CountedState(now, "unavailable"), CountedState(now, "unknown"),
     RecorderState(None, Timestamp(OsloHour(now), now.dst)),
     CountedState(now, "abc"), CountedState(now, "1.2"),
     RecorderState(Some("0.8"), Timestamp(now.utc_hour, now.dst))}

RecorderCounts == {0, 1, 5, 20}

Histories(now) ==
    {Raises}
    \cup { Returns(Repeat(CountedState(now, "1.0"), n)) : n \in RecorderCounts }
    \cup { Returns(Repeat(CountedState(now, "1.0"), n) \o <<st>>) :
             n \in RecorderCounts, st \in OtherStates(now) }

\* a node of the hour of now: unitPrice 0.8 and unitPriceVAT 0.2
CountedNode(now) == Node(Some(IsoString(now)), Some(800000), Some(Some(200000)))

\* nodes the filter may drop, and a node without the unitPriceVAT key
OtherNodes(now) ==
    {Node(None, Some(800000), Some(Some(200000))),
     Node(Some(BadIsoString), Some(800000), Some(Some(200000))),
     Node(Some(IsoString(Timestamp((now.utc_hour + 1) % HoursPerDay, now.dst))),
          Some(800000), Some(Some(200000))),
     Node(Some(IsoString(now)), None, Some(Some(200000))),
     Node(Some(IsoString(now)), Some(800000), Some(None)),
     Node(Some(IsoString(now)), Some(1200000), None)}

FallbackCounts == {0, 1, 40}

Clients(now) ==
    {NoClient, Client(Raises)}
    \cup { Client(Returns(Repeat(CountedNode(now), n))) : n \in FallbackCounts }
    \cup { Client(Returns(Repeat(CountedNode(now), n) \o <<nd>>)) :
             n \in FallbackCounts, nd \in OtherNodes(now) }

MinSamplesChoices == {1, 5, 20}
MaxFetchHoursChoices == {24, 720, 1000}

InitBaseline ==
    /\ adj_call = NoCall
    /\ data = NoData
    /\ cmp48 = NotWritten
    /\ options = DefaultOptions
    /\ baseline_entity = NoEntity
    /\ consensus = NotWritten
    /\ baseline = NoCall
    /\ category_call = NoCall
    /\ batch_call = NoCall
    /\ RefreshIdle

\* one call of get_same_hour_average with its collaborators' behaviour
GetSameHourAverage ==
    /\ ~baseline.called
    /\ \E now \in Nows, enable_fallback \in BOOLEAN, min_samples \in MinSamplesChoices,
          max_fetch_hours \in MaxFetchHoursChoices :
         \E history \in Histories(now), tibber_client \in Clients(now) :
            baseline' = [args    |-> [days |-> BASELINE_DAYS,
                                      enable_fallback |-> enable_fallback,
                                      max_fetch_hours |-> max_fetch_hours,
                                      min_samples |-> min_samples,
                                      tibber_client |-> tibber_client],
                         called  |-> TRUE,
                         history |-> history,
                         now     |-> now,
                         ret     |-> get_same_hour_average(BASELINE_DAYS, tibber_client,
                                                           enable_fallback, min_samples,
                                                           max_fetch_hours, now, history)]
    /\ UNCHANGED <<adj_call, data, cmp48, options, baseline_entity, consensus, category_call, batch_call,
                   refresh_vars>>

NextBaseline == GetSameHourAverage

SpecBaseline == InitBaseline /\ [][NextBaseline]_vars

(***************************************************************************)
(* Claims about the baseline                                               *)
(***************************************************************************)
\* the fallback source was queried during the call
FallbackQueried == baseline.ret.api_calls # <<>>

\* C5: once the recorder samples of the hour are counted, if there are at least
\* min_samples of them or the fallback is disabled, the fallback source is not queried
\* during the call and the source of the result is "recorder".
C5_RecorderOnlyNeverQueriesFallback ==
    (/\ baseline.called
     /\ ~baseline.history.raises
     /\ \/ Len(baseline.ret.recorder_prices) >= baseline.args.min_samples
        \/ ~baseline.args.enable_fallback)
    => /\ ~FallbackQueried
       /\ baseline.ret.tibber_prices = <<>>
       /\ baseline.ret.result.source = "recorder"

\* C5 witness: 20 recorder samples with min_samples 20, the fallback enabled and a client
\* that would return 40 nodes of the hour; the result is the recorder's
C5_Witness ==
    /\ baseline.called
    /\ baseline.args.enable_fallback
    /\ baseline.args.min_samples = 20
    /\ baseline.history = Returns(Repeat(CountedState(baseline.now, "1.0"), 20))
    /\ baseline.args.tibber_client = Client(Returns(Repeat(CountedNode(baseline.now), 40)))
    /\ ~FallbackQueried
    /\ baseline.ret.result.source = "recorder"
    /\ baseline.ret.result.sample_count = 20

\* the samples the statistics of the result are computed from, by its source
SamplesUsed ==
    CASE baseline.ret.result.source = "recorder" -> baseline.ret.recorder_prices
      [] baseline.ret.result.source = "tibber"   -> baseline.ret.tibber_prices
      [] baseline.ret.result.source = "mixed"    ->
             baseline.ret.recorder_prices \o baseline.ret.tibber_prices
      [] OTHER                                   -> <<>>

\* C6: the sample_count of every result is the number of samples its statistics are
\* computed from; a "mixed" result has sample_count = recorder count + fallback count and
\* carries both counts; 5 recorder samples with min_samples 20 and 40 fallback samples
\* give source "mixed" and sample_count 45.
C6_SampleCountIsSamplesUsed ==
    baseline.called =>
        LET r  == baseline.ret.result
            rp == baseline.ret.recorder_prices
            tp == baseline.ret.tibber_prices
        IN  /\ r.sample_count = Len(SamplesUsed)
            /\ r.average # None =>
                   /\ r.average = Some(Rat(SumSeq(SamplesUsed), Len(SamplesUsed)))
                   /\ r.min = Some(SeqMin(SamplesUsed))
                   /\ r.max = Some(SeqMax(SamplesUsed))
            /\ r.source = "mixed" =>
                   /\ rp # <<>> /\ tp # <<>>
                   /\ r.sample_count = Len(rp) + Len(tp)
                   /\ r.recorder_count = Some(Len(rp))
                   /\ r.tibber_count = Some(Len(tp))
            /\ (/\ Len(rp) = 5 /\ baseline.args.min_samples = 20
                /\ FallbackQueried /\ Len(tp) = 40)
               => r.source = "mixed" /\ r.sample_count = 45

\* C6 witness: 5 recorder samples, min_samples 20, 40 fallback samples, 45 in the result
C6_Witness ==
    /\ baseline.called
    /\ baseline.args.min_samples = 20
    /\ Len(baseline.ret.recorder_prices) = 5
    /\ Len(baseline.ret.tibber_prices) = 40
    /\ baseline.ret.result.source = "mixed"
    /\ baseline.ret.result.sample_count = 45
    /\ baseline.ret.result.recorder_count = Some(5)
    /\ baseline.ret.result.tibber_count = Some(40)

\* C7: when the recorder has fewer than min_samples samples and the fallback is queried,
\* both lists non-empty give "mixed" with the two counts, only the fallback non-empty
\* gives "tibber", and both empty give "none" with no average and sample_count 0.
C7_SourceFollowsNonEmptyLists ==
    (/\ baseline.called
     /\ ~baseline.history.raises
     /\ Len(baseline.ret.recorder_prices) < baseline.args.min_samples
     /\ FallbackQueried)
    => LET r  == baseline.ret.result
           rp == baseline.ret.recorder_prices
           tp == baseline.ret.tibber_prices
       IN  /\ (rp # <<>> /\ tp # <<>>) =>
                  /\ r.source = "mixed"
                  /\ r.recorder_count = Some(Len(rp))
                  /\ r.tibber_count = Some(Len(tp))
           /\ (rp = <<>> /\ tp # <<>>) =>
                  /\ r.source = "tibber"
                  /\ r.average # None
                  /\ r.sample_count = Len(tp)
           /\ (rp = <<>> /\ tp = <<>>) =>
                  /\ r.source = "none"
                  /\ r.average = None
                  /\ r.sample_count = 0

\* C7 witness: no recorder sample, the fallback is queried and returns one node of the
\* hour and one node of another hour; the result is the fallback's
C7_Witness ==
    /\ baseline.called
    /\ ~baseline.history.raises
    /\ FallbackQueried
    /\ baseline.ret.recorder_prices = <<>>
    /\ Len(baseline.args.tibber_client.outcome.returns) = 2
    /\ baseline.ret.tibber_prices = <<1000000>>
    /\ baseline.ret.result.source = "tibber"
    /\ baseline.ret.result.sample_count = 1

\* C8: whenever the recorder query fails or the fallback fetch fails, the call does not
\* raise and returns source "error" with no average, min or max and sample_count 0.
C8_AnyFailureGivesError ==
    (/\ baseline.called
     /\ \/ baseline.history.raises
        \/ FallbackQueried /\ baseline.args.tibber_client.outcome.raises)
    => /\ ~baseline.ret.raised
       /\ baseline.ret.result.source = "error"
       /\ baseline.ret.result.average = None
       /\ baseline.ret.result.min = None
       /\ baseline.ret.result.max = None
       /\ baseline.ret.result.sample_count = 0

\* the prices of the recorder states whose state is a number and whose local hour is the
\* local hour of now
LocalHourRecorderPrices ==
    LET target == OsloHour(baseline.now)
        eligible(st) ==
            /\ st.state # None
            /\ PyFloat(Val(st.state)) # None
            /\ OsloHour(st.last_updated) = target
        kept == SelectSeq(baseline.history.returns, eligible)
    IN  [ i \in DOMAIN kept |-> Val(PyFloat(Val(kept[i].state))) ]

\* the number of returned nodes with a price whose local hour is the local hour of now
LocalHourNodeCount ==
    LET target == OsloHour(baseline.now)
        eligible(nd) ==
            /\ nd.from # None
            /\ Val(nd.from).parses
            /\ OsloHour(Val(nd.from).time) = target
            /\ nd.unitPrice # None
            /\ (nd.unitPriceVAT = None \/ Val(nd.unitPriceVAT) # None)
    IN  Len(SelectSeq(baseline.args.tibber_client.outcome.returns, eligible))

\* C17: in both sources a sample is eligible iff the local hour of its timestamp equals
\* the target hour, whatever the offset of the zone from UTC: the recorder samples and the
\* fallback samples are filtered by the same local-hour rule.
C17_BothSourcesFilterByLocalHour ==
    (baseline.called /\ ~baseline.history.raises)
    => /\ baseline.ret.recorder_prices = LocalHourRecorderPrices
       /\ (FallbackQueried /\ ~baseline.args.tibber_client.outcome.raises)
          => Len(baseline.ret.tibber_prices) = LocalHourNodeCount

\* C18: in every result, on every path, average is absent iff sample_count is 0, and
\* min and max are absent exactly when average is absent.
C18_AverageAbsentIffNoSamples ==
    baseline.called =>
        LET r == baseline.ret.result
        IN  /\ r.source \in {"recorder", "mixed", "tibber", "none", "error"}
            /\ (r.average = None) <=> (r.sample_count = 0)
            /\ (r.min = None) <=> (r.average = None)
            /\ (r.max = None) <=> (r.average = None)

\* C18 witness: the fallback is disabled and the only recorder state is "unavailable":
\* the recorder-only path returns no statistics and sample_count 0
C18_Witness ==
    /\ baseline.called
    /\ ~baseline.args.enable_fallback
    /\ baseline.history = Returns(<<CountedState(baseline.now, "unavailable")>>)
    /\ baseline.ret.result.source = "recorder"
    /\ baseline.ret.result.average = None
    /\ baseline.ret.result.min = None
    /\ baseline.ret.result.max = None
    /\ baseline.ret.result.sample_count = 0

\* C27: when the fallback is consulted, the number of hourly records requested from the
\* remote source is max(1, lookback_days - primary samples) * 24 capped at
\* max_fallback_hours: it is at least 1, at most max_fallback_hours and at most the
\* remote API limit of 1000 records.
C27_FallbackRequestSize ==
    (baseline.called /\ FallbackQueried) =>
        LET primary == Len(baseline.ret.recorder_prices)
            wanted  == Max(1, baseline.args.days - primary) * 24
            cap     == baseline.args.max_fetch_hours
            request == baseline.ret.api_calls[1]
        IN  /\ Len(baseline.ret.api_calls) = 1
            /\ request.resolution = "HOURLY"
            /\ request.last = IF wanted <= cap THEN wanted ELSE cap
            /\ request.query_last = request.last
            /\ request.query_last >= 1
            /\ request.query_last <= cap
            /\ request.query_last <= 1000

\* C27 witness: five primary samples and a cap of 24 hours: 25 missing days are
\* estimated, 600 hours are wanted and 24 are requested
C27_Witness ==
    /\ baseline.called
    /\ FallbackQueried
    /\ Len(baseline.ret.recorder_prices) = 5
    /\ baseline.args.max_fetch_hours = 24
    /\ baseline.ret.api_calls[1].query_last = 24

(***************************************************************************)
(* Calls of _get_price_category on the ranks of [0, 100]                   *)
(***************************************************************************)
\* ranks are taken in steps of 1 / RankDenominator
RankDenominator == 4

Ranks == { Rat(n, RankDenominator) : n \in 0 .. 100 * RankDenominator }

InitCategory ==
    /\ adj_call = NoCall
    /\ data = NoData
    /\ cmp48 = NotWritten
    /\ options = DefaultOptions
    /\ baseline_entity = NoEntity
    /\ consensus = NotWritten
    /\ baseline = NoCall
    /\ category_call = NoCall
    /\ batch_call = NoCall
    /\ RefreshIdle

GetPriceCategory ==
    /\ ~category_call.called
    /\ \E percentile \in Ranks :
         category_call' = [called |-> TRUE, percentile |-> percentile,
                           ret |-> get_price_category(percentile)]
    /\ UNCHANGED <<adj_call, data, cmp48, options, baseline_entity, consensus, baseline,
                   batch_call, refresh_vars>>

NextCategory == GetPriceCategory

SpecCategory == InitCategory /\ [][NextCategory]_vars

\* C20: for every rank in [0, 100] the category is "cheap" when rank < 33, "normal" when
\* 33 <= rank < 66 and "expensive" when rank >= 66: one and only one of the three.
C20_CategoryBuckets ==
    category_call.called =>
        LET rank == category_call.percentile
            lt(x) == rank.n < x * rank.d
        IN  /\ category_call.ret \in {"cheap", "normal", "expensive"}
            /\ (category_call.ret = "cheap") <=> lt(33)
            /\ (category_call.ret = "normal") <=> (~lt(33) /\ lt(66))
            /\ (category_call.ret = "expensive") <=> ~lt(66)

\* C20 witness: the rank 33 is "normal"
C20_Witness ==
    /\ category_call.called
    /\ category_call.percentile = [d |-> 1, n |-> 33]
    /\ category_call.ret = "normal"

(***************************************************************************)
(* coordinator.py: TibberDataUpdateCoordinator.  price_adjustments.py:     *)
(* adjust_price_list.  Days are numbered; the clock of the model shows two *)
(* hours of every day, 05:00 and 13:00 Oslo time in winter, and the        *)
(* provider publishes one price record for each of them.                   *)
(***************************************************************************)
ClockHours == {5, 13}

\* an ISO startsAt string: its date and its instant of the day
StartsAt(day, hour) == [day |-> day, parses |-> TRUE, time |-> Timestamp(hour - 1, FALSE)]

\* a startsAt string datetime.fromisoformat does not accept
Unparsable(startsAt) == [startsAt EXCEPT !.parses = FALSE]

\* a > b on two startsAt strings of the same UTC offset
LaterStartsAt(a, b) ==
    a.day > b.day \/ (a.day = b.day /\ a.time.utc_hour > b.time.utc_hour)

\* a price record; the adjustment keys are None while the record is raw, and missing
\* is the set of the keys "total" and "startsAt" the dict does not have
PricePoint(total, startsAt) ==
    [grid_fee |-> None, missing |-> {}, raw_spot_price |-> None, startsAt |-> startsAt,
     subsidy_amount |-> None, total |-> total]

\* the record without one of its keys: entry.get(key) is None, and the field of a
\* missing startsAt is never read
WithoutKey(entry, key) ==
    IF key = "total" THEN [entry EXCEPT !.missing = @ \cup {key}, !.total = None]
    ELSE [entry EXCEPT !.missing = @ \cup {key}]

\* the current record of get_price_data: a price record with a level
CurrentPoint(total, level, startsAt) ==
    [grid_fee |-> None, level |-> level, raw_spot_price |-> None, startsAt |-> startsAt,
     subsidy_amount |-> None, total |-> total]

\* the total the provider reports for the record of an hour of a day
ProviderTotal(day, hour) == 400000 + 300000 * day + (IF hour = 13 THEN 100000 ELSE 0)

DayPrices(day) ==
    << PricePoint(Some(ProviderTotal(day, 5)), StartsAt(day, 5)),
       PricePoint(Some(ProviderTotal(day, 13)), StartsAt(day, 13)) >>

\* the dict get_price_data returns (tibber_api.py 131-140)
PriceInfo(current, today, tomorrow) ==
    [current |-> current, today |-> today, tomorrow |-> tomorrow]

\* the value _async_update_data returns, as coordinator.data
RefreshData(current, today, tomorrow, yesterday) ==
    [current |-> current, present |-> TRUE, today |-> today, tomorrow |-> tomorrow,
     yesterday |-> yesterday]

\* the arguments _apply_price_adjustments passes for one record
TariffArgs(spot_price, startsAt, t) ==
    AdjustArgs(spot_price, startsAt.time, t.enable_subsidy, DEFAULT_SUBSIDY_THRESHOLD,
               DEFAULT_SUBSIDY_PERCENTAGE, t.enable_grid_fee, DEFAULT_GRID_FEE_DAY,
               DEFAULT_GRID_FEE_NIGHT, DEFAULT_DAY_START_HOUR, DEFAULT_DAY_END_HOUR)

\* the adjusted copy of a record (price_adjustments.py 164-169, coordinator.py 142-146)
adjusted_record(entry, t) ==
    LET adjustment == calculate_adjusted_price(TariffArgs(Val(entry.total), entry.startsAt, t))
    IN  [entry EXCEPT !.total          = Some(adjustment.adjusted_price),
                      !.raw_spot_price = Some(adjustment.raw_spot_price),
                      !.subsidy_amount = Some(adjustment.subsidy_amount),
                      !.grid_fee       = Some(adjustment.grid_fee)]

\* `"total" not in entry or "startsAt" not in entry`: the record is skipped
InvalidFormat(entry) == entry.missing # {}

\* calculate_adjusted_price raises on a record that has both keys: TypeError on a total
\* that is None, ValueError on a startsAt that does not parse
AdjustmentRaises(entries) ==
    \E i \in DOMAIN entries :
        /\ ~InvalidFormat(entries[i])
        /\ (entries[i].total = None \/ ~entries[i].startsAt.parses)

\* price_adjustments.adjust_price_list, when no call of calculate_adjusted_price raises
adjust_price_list(price_entries, t) ==
    LET has_keys(entry) == ~InvalidFormat(entry)
        kept == SelectSeq(price_entries, has_keys)
    IN  [ i \in DOMAIN kept |-> adjusted_record(kept[i], t) ]

\* an adjustment of the three lists that leaves the current record raw
apply_price_adjustments_lists_only(d, t) ==
    IF ~t.enable_subsidy /\ ~t.enable_grid_fee THEN Returns(d)
    ELSE IF \/ AdjustmentRaises(d.today)
            \/ AdjustmentRaises(d.tomorrow)
            \/ AdjustmentRaises(d.yesterday)
         THEN Raises
         ELSE Returns(RefreshData(d.current,
                                  adjust_price_list(d.today, t),
                                  adjust_price_list(d.tomorrow, t),
                                  adjust_price_list(d.yesterday, t)))

\* TibberDataUpdateCoordinator._apply_price_adjustments
apply_price_adjustments(d, t) ==
    IF ~t.enable_subsidy /\ ~t.enable_grid_fee THEN Returns(d)
    ELSE IF \/ d.current.total = None
            \/ AdjustmentRaises(d.today)
            \/ AdjustmentRaises(d.tomorrow)
            \/ AdjustmentRaises(d.yesterday)
         THEN Raises
         ELSE Returns(RefreshData(adjusted_record(d.current, t),
                                  adjust_price_list(d.today, t),
                                  adjust_price_list(d.tomorrow, t),
                                  adjust_price_list(d.yesterday, t)))

\* Store yesterday's prices when tomorrow becomes available (coordinator.py 68-83)
yesterday_prices_after(yesterday_prices, fetched) ==
    IF fetched.tomorrow # <<>> /\ yesterday_prices = <<>> THEN fetched.today
    ELSE IF /\ fetched.tomorrow # <<>>
            /\ yesterday_prices # <<>>
            /\ LaterStartsAt(fetched.today[1].startsAt, yesterday_prices[1].startsAt)
         THEN fetched.today
         ELSE yesterday_prices

\* a snapshot that is dropped when the fetch fails
async_update_data_dropping_snapshot(yesterday_prices, response, t) ==
    IF response.raises
    THEN [data |-> NoData, exception |-> "UpdateFailed", yesterday_prices |-> <<>>]
    ELSE LET fetched  == response.returns
             snapshot == yesterday_prices_after(yesterday_prices, fetched)
             adjusted == apply_price_adjustments(
                             RefreshData(fetched.current, fetched.today, fetched.tomorrow,
                                         snapshot), t)
         IN  IF adjusted.raises
             THEN [data |-> NoData, exception |-> "Exception", yesterday_prices |-> snapshot]
             ELSE [data |-> adjusted.returns, exception |-> "none",
                   yesterday_prices |-> snapshot]

\* a snapshot that is taken from the adjusted today list instead of the fetched one
async_update_data_storing_adjusted(yesterday_prices, response, t) ==
    IF response.raises
    THEN [data |-> NoData, exception |-> "UpdateFailed", yesterday_prices |-> yesterday_prices]
    ELSE LET fetched  == response.returns
             snapshot == yesterday_prices_after(yesterday_prices, fetched)
             adjusted == apply_price_adjustments(
                             RefreshData(fetched.current, fetched.today, fetched.tomorrow,
                                         snapshot), t)
         IN  IF adjusted.raises
             THEN [data |-> NoData, exception |-> "Exception", yesterday_prices |-> snapshot]
             ELSE [data |-> adjusted.returns, exception |-> "none",
                   yesterday_prices |-> IF snapshot = fetched.today
                                        THEN adjusted.returns.today
                                        ELSE snapshot]

\* TibberDataUpdateCoordinator._async_update_data: the data it returns, the exception it
\* raises ("none", "UpdateFailed" for a TibberApiError of the fetch, "Exception" for the
\* TypeError or ValueError out of the adjustment, which is not caught here) and
\* self.yesterday_prices when it ends
async_update_data(yesterday_prices, response, t) ==
    IF response.raises
    THEN [data |-> NoData, exception |-> "UpdateFailed", yesterday_prices |-> yesterday_prices]
    ELSE LET fetched  == response.returns
             snapshot == yesterday_prices_after(yesterday_prices, fetched)
             adjusted == apply_price_adjustments(
                             RefreshData(fetched.current, fetched.today, fetched.tomorrow,
                                         snapshot), t)
         IN  IF adjusted.raises
             THEN [data |-> NoData, exception |-> "Exception", yesterday_prices |-> snapshot]
             ELSE [data |-> adjusted.returns, exception |-> "none",
                   yesterday_prices |-> snapshot]

(***************************************************************************)
(* Calls of _apply_price_adjustments on fetched data with at most one      *)
(* malformed record.  A day's list has three records here, so that a       *)
(* record can be skipped between two others.                               *)
(***************************************************************************)
BatchHours == <<5, 13, 22>>

BatchDay(day) ==
    [ i \in DOMAIN BatchHours |->
        PricePoint(Some(ProviderTotal(day, BatchHours[i])), StartsAt(day, BatchHours[i])) ]

\* the ways a record is malformed: null total, no total, no startsAt, a startsAt that
\* does not parse
Malformed(entry) ==
    {[entry EXCEPT !.total = None],
     WithoutKey(entry, "total"),
     WithoutKey(entry, "startsAt"),
     [entry EXCEPT !.startsAt = Unparsable(@)]}

\* the lists that differ from a list in one record, which is malformed
OneMalformed(entries) ==
    UNION { { [entries EXCEPT ![i] = m] : m \in Malformed(entries[i]) } : i \in DOMAIN entries }

\* today, tomorrow and yesterday with no malformed record or with one in one of them
BatchInputs ==
    LET today == BatchDay(2)
        tomorrows == {<<>>, BatchDay(3)}
        yesterdays == {<<>>, BatchDay(1)}
    IN  { <<today, tm, yd>> : tm \in tomorrows, yd \in yesterdays }
        \cup { <<td, tm, yd>> : td \in OneMalformed(today), tm \in tomorrows, yd \in yesterdays }
        \cup { <<today, tm, yd>> : tm \in OneMalformed(BatchDay(3)), yd \in yesterdays }
        \cup { <<today, tm, yd>> : tm \in tomorrows, yd \in OneMalformed(BatchDay(1)) }

BatchTariffs == [enable_grid_fee : BOOLEAN, enable_subsidy : BOOLEAN]

InitBatch ==
    /\ adj_call = NoCall
    /\ data = NoData
    /\ cmp48 = NotWritten
    /\ options = DefaultOptions
    /\ baseline_entity = NoEntity
    /\ consensus = NotWritten
    /\ baseline = NoCall
    /\ category_call = NoCall
    /\ batch_call = NoCall
    /\ RefreshIdle

\* one call of _apply_price_adjustments on the data of a fetch
ApplyPriceAdjustments ==
    /\ ~batch_call.called
    /\ \E input \in BatchInputs, t \in BatchTariffs :
         LET current == CurrentPoint(Some(ProviderTotal(2, 13)), Some("NORMAL"), StartsAt(2, 13))
             d == RefreshData(current, input[1], input[2], input[3])
         IN  batch_call' = [called |-> TRUE, args |-> [data |-> d, tariff |-> t],
                            outcome |-> apply_price_adjustments(d, t)]
    /\ UNCHANGED <<adj_call, data, cmp48, options, baseline_entity, consensus, baseline,
                   category_call, refresh_vars>>

NextBatch == ApplyPriceAdjustments

SpecBatch == InitBatch /\ [][NextBatch]_vars

\* a record with a total and a startsAt that parses
WellFormed(entry) ==
    /\ entry.missing = {}
    /\ entry.total # None
    /\ entry.startsAt.parses

\* the adjusted copies of the well-formed records of a list, in the order of the list
AdjustedWellFormed(entries, t) ==
    LET kept == SelectSeq(entries, WellFormed)
    IN  [ i \in DOMAIN kept |-> adjusted_record(kept[i], t) ]

\* C23: a single malformed price record (missing or null total, missing or unparsable
\* startsAt) in today, tomorrow or yesterday never makes the batch adjustment fail: the
\* malformed record is skipped, every well-formed record is adjusted, and the output
\* keeps the input order of the well-formed records.
C23_MalformedRecordIsSkipped ==
    (batch_call.called
     /\ (batch_call.args.tariff.enable_subsidy \/ batch_call.args.tariff.enable_grid_fee))
    => /\ ~batch_call.outcome.raises
       /\ \A key \in {"today", "tomorrow", "yesterday"} :
            batch_call.outcome.returns[key]
            = AdjustedWellFormed(batch_call.args.data[key], batch_call.args.tariff)

(***************************************************************************)
(* The refresh cycle: __init__.py (setup, price-change listener) and the   *)
(* DataUpdateCoordinator the coordinator extends.  async_request_refresh   *)
(* goes through the request debouncer of the base class: a call is dropped *)
(* while a refresh runs and is deferred to the end of the cooldown timer   *)
(* while the timer runs.                                                   *)
(***************************************************************************)
\* the coordinator as __init__ leaves it
FreshCoordinator ==
    [dropped             |-> FALSE,  \* a request was dropped because a refresh was running
     execute_at_end      |-> FALSE,  \* a request waits for the end of the cooldown
     exists              |-> TRUE,
     in_flight           |-> 0,      \* calls of get_price_data that have not returned
     last_exception      |-> "none", \* what the last finished refresh raised
     last_update_success |-> TRUE,
     setup_done          |-> FALSE,  \* the first refresh succeeded, the listener is set up
     timer               |-> FALSE,  \* the cooldown timer of the debouncer runs
     yesterday_prices    |-> <<>>]

\* a request that starts a refresh whatever the coordinator is doing
request_refresh_unguarded(c) == [c EXCEPT !.in_flight = @ + 1]

\* coordinator.async_request_refresh()
request_refresh(c) ==
    IF c.timer THEN [c EXCEPT !.execute_at_end = TRUE]
    ELSE IF c.in_flight > 0 THEN [c EXCEPT !.dropped = TRUE]
    ELSE [c EXCEPT !.in_flight = @ + 1]

\* the days the clock runs through
MaxDay == 3

\* the closure of the listener when it is registered: last_updated_hour = {"value": None}.
\* requests counts the calls of async_request_refresh the handler made in the clock hour
\* of env, and last_return is the return the handler took last in that hour.
NewListener == [last_return |-> "none", last_updated_hour |-> None, requests |-> 0]

\* the counter of requests stops here
MaxRequests == 2

\* a handler that does not store the hour it refreshed for
price_change_without_hour_mark(l, c, new_state, current_hour) ==
    IF new_state = None \/ Val(new_state) \in {"unavailable", "unknown"}
    THEN [coordinator |-> c, listener |-> [l EXCEPT !.last_return = "invalid"]]
    ELSE IF l.last_updated_hour = Some(current_hour)
    THEN [coordinator |-> c, listener |-> [l EXCEPT !.last_return = "duplicate"]]
    ELSE [coordinator |-> request_refresh(c),
          listener    |-> [l EXCEPT !.last_return = "requested", !.requests = @ + 1]]

\* _handle_tibber_price_change on an event with new_state, at the clock hour current_hour
handle_tibber_price_change(l, c, new_state, current_hour) ==
    IF new_state = None \/ Val(new_state) \in {"unavailable", "unknown"}
    THEN [coordinator |-> c, listener |-> [l EXCEPT !.last_return = "invalid"]]
    ELSE IF l.last_updated_hour = Some(current_hour)
    THEN [coordinator |-> c, listener |-> [l EXCEPT !.last_return = "duplicate"]]
    ELSE [coordinator |-> request_refresh(c),
          listener    |-> [l EXCEPT !.last_return = "requested",
                                    !.last_updated_hour = Some(current_hour),
                                    !.requests = @ + 1]]

\* what get_price_data can do when it returns at e: raise TibberApiError, return the
\* published prices, or return them with a null total in the second record of today
Responses(e) ==
    LET current  == CurrentPoint(Some(ProviderTotal(e.day, e.hour)), Some("NORMAL"),
                                 StartsAt(e.day, e.hour))
        tomorrow == IF e.tomorrow THEN DayPrices(e.day + 1) ELSE <<>>
    IN  {Raises,
         Returns(PriceInfo(current, DayPrices(e.day), tomorrow)),
         Returns(PriceInfo(current, [DayPrices(e.day) EXCEPT ![2].total = None], tomorrow))}

\* new_state of a state-change event of the official Tibber price entity
NewStates == {None, Some("unavailable"), Some("unknown"), Some("1.23")}

TariffChoices ==
    {[enable_grid_fee |-> TRUE, enable_subsidy |-> TRUE],
     [enable_grid_fee |-> FALSE, enable_subsidy |-> TRUE],
     [enable_grid_fee |-> FALSE, enable_subsidy |-> FALSE]}

InitRefresh ==
    /\ adj_call = NoCall
    /\ data = NoData
    /\ cmp48 = NotWritten
    /\ options = DefaultOptions
    /\ baseline_entity = NoEntity
    /\ consensus = NotWritten
    /\ baseline = NoCall
    /\ category_call = NoCall
    /\ batch_call = NoCall
    /\ coordinator = FreshCoordinator
    /\ env = [day |-> 1, hour |-> 5, tomorrow |-> FALSE]
    /\ listener = NewListener
    /\ tariff \in TariffChoices

\* the variables the refresh cycle leaves alone
sensor_vars ==
    <<adj_call, cmp48, options, baseline_entity, consensus, baseline, category_call, batch_call>>

\* async_setup_entry: coordinator.async_config_entry_first_refresh() starts
FirstRefresh ==
    /\ ~coordinator.setup_done
    /\ coordinator.in_flight = 0
    /\ coordinator.last_update_success
    /\ coordinator' = [coordinator EXCEPT !.in_flight = 1]
    /\ UNCHANGED <<data, env, listener, tariff, sensor_vars>>

\* the first refresh failed (ConfigEntryNotReady): the setup is retried with a new
\* coordinator
SetupRetry ==
    /\ ~coordinator.setup_done
    /\ coordinator.in_flight = 0
    /\ ~coordinator.last_update_success
    /\ coordinator' = FreshCoordinator
    /\ UNCHANGED <<data, env, listener, tariff, sensor_vars>>

\* get_price_data returns or raises and the refresh ends: a result is published, or the
\* refresh fails and coordinator.data stays.  A refresh that was requested through the
\* debouncer starts the cooldown timer.
FetchReturns ==
    /\ coordinator.in_flight > 0
    /\ \E response \in Responses(env) :
         LET r == async_update_data(coordinator.yesterday_prices, response, tariff)
         IN  /\ coordinator' = [coordinator EXCEPT
                                  !.in_flight           = @ - 1,
                                  !.last_exception      = r.exception,
                                  !.last_update_success = (r.exception = "none"),
                                  !.setup_done          = @ \/ r.exception = "none",
                                  !.timer               = coordinator.setup_done,
                                  !.yesterday_prices    = r.yesterday_prices]
             /\ data' = IF r.exception = "none" THEN r.data ELSE data
    /\ UNCHANGED <<env, listener, tariff, sensor_vars>>

\* _handle_tibber_price_change (__init__.py 69-92)
HandleTibberPriceChange ==
    /\ coordinator.setup_done
    /\ listener.requests < MaxRequests
    /\ \E new_state \in NewStates :
         LET current_hour == [day |-> env.day, hour |-> env.hour]
             after == handle_tibber_price_change(listener, coordinator, new_state, current_hour)
         IN  /\ listener' = after.listener
             /\ coordinator' = after.coordinator
    /\ UNCHANGED <<data, env, tariff, sensor_vars>>

\* the cooldown timer of the debouncer ends: a deferred request starts its refresh
TimerFinish ==
    /\ coordinator.timer
    /\ coordinator' =
           IF coordinator.execute_at_end /\ coordinator.in_flight = 0
           THEN [coordinator EXCEPT !.timer = FALSE, !.execute_at_end = FALSE,
                                    !.in_flight = 1]
           ELSE [coordinator EXCEPT !.timer = FALSE, !.execute_at_end = FALSE]
    /\ UNCHANGED <<data, env, listener, tariff, sensor_vars>>

\* the clock reaches the next hour; at midnight the provider's tomorrow becomes today.
\* The count of the requests of the hour and the last return of the handler start anew.
Tick ==
    /\ env.hour = 13 => env.day < MaxDay
    /\ env' = IF env.hour = 5 THEN [env EXCEPT !.hour = 13]
              ELSE [day |-> env.day + 1, hour |-> 5, tomorrow |-> FALSE]
    /\ listener' = [listener EXCEPT !.last_return = "none", !.requests = 0]
    /\ UNCHANGED <<data, coordinator, tariff, sensor_vars>>

\* the provider publishes the prices of tomorrow
PublishTomorrow ==
    /\ ~env.tomorrow
    /\ env' = [env EXCEPT !.tomorrow = TRUE]
    /\ UNCHANGED <<data, coordinator, listener, tariff, sensor_vars>>

\* the provider's answer has no prices of tomorrow any more
WithdrawTomorrow ==
    /\ env.tomorrow
    /\ env' = [env EXCEPT !.tomorrow = FALSE]
    /\ UNCHANGED <<data, coordinator, listener, tariff, sensor_vars>>

NextRefresh ==
    \/ FirstRefresh
    \/ SetupRetry
    \/ FetchReturns
    \/ HandleTibberPriceChange
    \/ TimerFinish
    \/ Tick
    \/ PublishTomorrow
    \/ WithdrawTomorrow

SpecRefresh == InitRefresh /\ [][NextRefresh]_vars

(***************************************************************************)
(* Claims about the refresh cycle                                          *)
(***************************************************************************)
\* C11: when the price fetch fails with TibberApiError the refresh fails as a whole: no
\* new result is published, the published result stays, and the stored yesterday
\* snapshot is the one from before the refresh.
C11_FailedFetchKeepsPublishedState ==
    [][ (/\ coordinator'.in_flight < coordinator.in_flight
         /\ coordinator'.last_exception = "UpdateFailed")
        => /\ data' = data
           /\ coordinator'.yesterday_prices = coordinator.yesterday_prices
           /\ ~coordinator'.last_update_success ]_vars

\* C11 witness: a result is published and a snapshot is stored, and the last refresh
\* failed in the fetch
C11_Witness ==
    /\ data.present
    /\ data.yesterday # <<>>
    /\ coordinator.yesterday_prices # <<>>
    /\ coordinator.last_exception = "UpdateFailed"
    /\ ~coordinator.last_update_success
    /\ coordinator.in_flight = 0

AdjustedOnce(rec) ==
    LET provider == ProviderTotal(rec.startsAt.day, OsloHour(rec.startsAt.time))
    IN  /\ rec.raw_spot_price = Some(provider)
        /\ rec.total
           = Some(calculate_adjusted_price(TariffArgs(provider, rec.startsAt, tariff)).adjusted_price)

\* C13: with the tariff adjustment enabled every published record of current, today,
\* tomorrow and yesterday carries the provider's total as raw_spot_price next to the
\* adjusted total: the adjustment is applied once, also to the yesterday snapshot.
C13_RawSpotPricePreserved ==
    (data.present /\ (tariff.enable_subsidy \/ tariff.enable_grid_fee))
    => /\ AdjustedOnce(data.current)
       /\ \A i \in DOMAIN data.today : AdjustedOnce(data.today[i])
       /\ \A i \in DOMAIN data.tomorrow : AdjustedOnce(data.tomorrow[i])
       /\ \A i \in DOMAIN data.yesterday : AdjustedOnce(data.yesterday[i])

\* C13 witness: subsidy and grid fee are enabled, the published yesterday is the day
\* before today, and its 13:00 record has the provider's total and a different total
C13_Witness ==
    /\ data.present
    /\ tariff.enable_subsidy /\ tariff.enable_grid_fee
    /\ data.yesterday # <<>>
    /\ data.yesterday[1].startsAt.day + 1 = data.today[1].startsAt.day
    /\ data.yesterday[2].raw_spot_price
       = Some(ProviderTotal(data.yesterday[2].startsAt.day, 13))
    /\ data.yesterday[2].total # data.yesterday[2].raw_spot_price

\* the total a record of its hour carries under the configuration: the provider's total
\* adjusted with the settings of the instance, or that total as it is when subsidy and
\* grid fee are both off
ConfiguredTotal(rec) ==
    LET provider == ProviderTotal(rec.startsAt.day, OsloHour(rec.startsAt.time))
    IN  IF tariff.enable_subsidy \/ tariff.enable_grid_fee
        THEN calculate_adjusted_price(TariffArgs(provider, rec.startsAt, tariff)).adjusted_price
        ELSE provider

\* the records of the published result
PublishedRecords ==
    {data.current} \cup { data.today[i] : i \in DOMAIN data.today }
                   \cup { data.tomorrow[i] : i \in DOMAIN data.tomorrow }
                   \cup { data.yesterday[i] : i \in DOMAIN data.yesterday }

\* C24: with the tariff adjustment enabled the same adjustment with the same
\* configuration is applied to the current record and to every record of today,
\* tomorrow and yesterday, so the 48h rank compares the adjusted current price with
\* adjusted window prices; with subsidy and grid fee both off every published total is
\* the raw provider total (a total the provider sent as null stays null).
C24_SameAdjustmentEverywhere ==
    data.present =>
        LET enabled == tariff.enable_subsidy \/ tariff.enable_grid_fee
            window  == IF data.tomorrow # <<>> THEN data.today \o data.tomorrow
                       ELSE IF data.yesterday # <<>> THEN data.yesterday \o data.today
                       ELSE data.today
        IN  /\ enabled => \A rec \in PublishedRecords : rec.total = Some(ConfiguredTotal(rec))
            /\ ~enabled => \A rec \in PublishedRecords :
                              /\ rec.total \in {None, Some(ConfiguredTotal(rec))}
                              /\ rec.raw_spot_price = None
            /\ enabled =>
                 Comparison_native_value(data)
                 = Some(PyRound(calculate_percentile(
                                    ConfiguredTotal(data.current),
                                    [ i \in DOMAIN window |-> ConfiguredTotal(window[i]) ]), 1))

\* C24 witness: subsidy and grid fee are on, the window is yesterday + today, and the
\* adjusted current price ranks above three of its four adjusted prices
C24_Witness ==
    /\ data.present
    /\ tariff.enable_subsidy /\ tariff.enable_grid_fee
    /\ data.tomorrow = <<>>
    /\ data.yesterday # <<>>
    /\ data.yesterday[1].startsAt.day < data.today[1].startsAt.day
    /\ data.current.total # Some(ProviderTotal(data.current.startsAt.day, 13))
    /\ data.current.startsAt = data.today[2].startsAt
    /\ Comparison_native_value(data) = Some(750)

\* C25: the stored yesterday snapshot is modified only by a refresh that completes
\* successfully: when a refresh fails, in the price fetch or in the price adjustment
\* that follows it, the snapshot after the refresh is the snapshot before it.
C25_FailedRefreshKeepsSnapshot ==
    [][ (/\ coordinator'.in_flight < coordinator.in_flight
         /\ coordinator'.last_exception # "none")
        => coordinator'.yesterday_prices = coordinator.yesterday_prices ]_vars

\* a refresh ends in this step and publishes its result
RefreshSucceeds ==
    /\ coordinator'.in_flight < coordinator.in_flight
    /\ coordinator'.last_exception = "none"

\* C26: on a calendar-day rollover (the first timestamp of the new today array is later
\* than the first timestamp of the stored snapshot) the stored yesterday snapshot is
\* replaced by the today array of the previous day, and at most once per rollover: a
\* further refresh with the same today array leaves the snapshot unchanged.
C26_SnapshotReplacedOncePerRollover ==
    [][ (RefreshSucceeds /\ coordinator.yesterday_prices # <<>>) =>
            LET old         == coordinator.yesterday_prices
                new         == coordinator'.yesterday_prices
                today_first == data'.today[1].startsAt
            IN  IF LaterStartsAt(today_first, old[1].startsAt)
                THEN /\ Len(new) = Len(data'.today)
                     /\ \A i \in DOMAIN new : new[i].startsAt.day + 1 = today_first.day
                ELSE new = old ]_vars

\* C28: whenever the 48h window is built from yesterday + today, the first timestamp of
\* the yesterday snapshot is strictly earlier than the first timestamp of today, so the
\* window never holds the prices of one day twice.
C28_YesterdayIsEarlierThanToday ==
    (data.present /\ data.tomorrow = <<>> /\ data.yesterday # <<>>)
    => /\ LaterStartsAt(data.today[1].startsAt, data.yesterday[1].startsAt)
       /\ \A i \in DOMAIN data.yesterday : \A j \in DOMAIN data.today :
            data.yesterday[i].startsAt # data.today[j].startsAt

\* C29: the listener requests at most one refresh per clock hour.  An event whose new
\* state is missing, "unavailable" or "unknown" requests no refresh and does not use up
\* the hour; an event that requests a refresh marks the hour as used in the same step,
\* before the refresh runs; a later event of the hour requests nothing, whether the
\* refresh is still running, succeeded or failed.
C29_OneRequestPerClockHour ==
    /\ [](listener.requests <= 1)
    /\ [][ (env' = env /\ listener' # listener) =>
             LET current_hour == Some([day |-> env.day, hour |-> env.hour])
             IN  \/ /\ listener'.last_return = "invalid"
                    /\ listener'.last_updated_hour = listener.last_updated_hour
                    /\ listener'.requests = listener.requests
                    /\ coordinator' = coordinator
                 \/ /\ listener'.last_return = "duplicate"
                    /\ listener.last_updated_hour = current_hour
                    /\ listener'.last_updated_hour = current_hour
                    /\ listener'.requests = listener.requests
                    /\ coordinator' = coordinator
                 \/ /\ listener'.last_return = "requested"
                    /\ listener.last_updated_hour # current_hour
                    /\ listener'.last_updated_hour = current_hour
                    /\ listener.requests = 0
                    /\ listener'.requests = 1
                    /\ coordinator' = request_refresh(coordinator) ]_vars

\* C29 witness: the refresh the listener requested in this hour has failed, and a later
\* event of the same hour with a usable state requested nothing
C29_Witness ==
    /\ listener.requests = 1
    /\ listener.last_return = "duplicate"
    /\ listener.last_updated_hour = Some([day |-> env.day, hour |-> env.hour])
    /\ coordinator.in_flight = 0
    /\ ~coordinator.timer
    /\ ~coordinator.last_update_success

====
